---- MODULE Spec2Model ----
(***************************************************************************)
(* StudySahayak: the content-to-knowledge-graph derivation                 *)
(* (generate_graph_data and the tiers it falls back to).                   *)
(*                                                                         *)
(* Strings are sequences of runs [c, n]: the text c repeated n times.  The *)
(* characters the code looks at ('.', ' ', newline) are always runs of a   *)
(* one-character c; "x" stands for a lowercase letter.  JSON values are    *)
(* tagged records [t, v], so that the code's duck typing (.get on a        *)
(* non-dict, iterating a number, hashing a list) is an explicit outcome.   *)
(***************************************************************************)
EXTENDS Integers, Sequences, FiniteSets, TLC

Min(a, b) == IF a <= b THEN a ELSE b

\* range(n), counted from 1; empty when n <= 0
UpTo(n) == 1..(IF n < 0 THEN 0 ELSE n)

(***************************************************************************)
(* Strings                                                                 *)
(***************************************************************************)
Run(c, n) == [c |-> c, n |-> n]
\* the characters kept as counted runs; every other text is one opaque run
CharClasses == {"x", "y", ".", " ", "\n", "~"}
IsCharRun(r) == r.c \in CharClasses
Rep(c, n) == IF n <= 0 THEN <<>> ELSE <<Run(c, n)>>
Lit(s) == IF s = "" THEN <<>> ELSE <<Run(s, 1)>>
RunLen(r) == Len(r.c) * r.n

RECURSIVE StrLen(_)
StrLen(s) == IF s = <<>> THEN 0 ELSE RunLen(Head(s)) + StrLen(Tail(s))

\* a + b in canonical form: equal characters share a run, opaque texts are joined
Cat(a, b) ==
    IF a = <<>> THEN b
    ELSE IF b = <<>> THEN a
    ELSE LET l == a[Len(a)]
             r == b[1]
             front == SubSeq(a, 1, Len(a) - 1)
         IN IF IsCharRun(l) /\ l.c = r.c
            THEN front \o <<Run(l.c, l.n + r.n)>> \o Tail(b)
            ELSE IF ~IsCharRun(l) /\ ~IsCharRun(r)
            THEN front \o <<Run(l.c \o r.c, 1)>> \o Tail(b)
            ELSE a \o b

RECURSIVE Join(_, _)
Join(parts, sep) ==
    IF parts = <<>> THEN <<>>
    ELSE IF Len(parts) = 1 THEN parts[1]
    ELSE Cat(Cat(parts[1], sep), Join(Tail(parts), sep))

IsSpace(r) == r.c \in {" ", "\n"}

RECURSIVE LStrip(_)
LStrip(s) == IF s # <<>> /\ IsSpace(Head(s)) THEN LStrip(Tail(s)) ELSE s

RECURSIVE RStrip(_)
RStrip(s) == IF s # <<>> /\ IsSpace(s[Len(s)]) THEN RStrip(SubSeq(s, 1, Len(s) - 1)) ELSE s

\* str.strip()
Strip(s) == RStrip(LStrip(s))

\* s[:k]; a cut inside an opaque text keeps the length and fills with "~"
RECURSIVE Take(_, _)
Take(s, k) ==
    IF k <= 0 \/ s = <<>> THEN <<>>
    ELSE LET r == Head(s) IN
         IF RunLen(r) <= k THEN <<r>> \o Take(Tail(s), k - RunLen(r))
         ELSE IF IsCharRun(r) THEN <<Run(r.c, k)>>
         ELSE Rep("~", k)

\* a title cut one character late
EllipsisLate(s, k) == IF StrLen(s) > k + 1 THEN Cat(Take(s, k + 1), Rep(".", 3)) ELSE s

\* s[:k] + "..." if len(s) > k else s
Ellipsis(s, k) == IF StrLen(s) > k THEN Cat(Take(s, k), Rep(".", 3)) ELSE s

\* str.split(sep) for sep = ch repeated width times, scanning left to right;
\* cur is the piece being collected
RECURSIVE SplitFrom(_, _, _, _)
SplitFrom(s, ch, width, cur) ==
    IF s = <<>> THEN <<cur>>
    ELSE LET r == Head(s)
             k == r.n \div width
         IN IF r.c = ch /\ k > 0
            THEN <<cur>> \o [i \in UpTo(k - 1) |-> <<>>]
                 \o SplitFrom(Tail(s), ch, width, Rep(ch, r.n % width))
            ELSE SplitFrom(Tail(s), ch, width, cur \o <<r>>)

Split(s, ch, width) == SplitFrom(s, ch, width, <<>>)

\* seq[a:b] of Python, 0-based and clipped
Slice(seq, a, b) == SubSeq(seq, a + 1, Min(b, Len(seq)))

(***************************************************************************)
(* JSON values                                                             *)
(***************************************************************************)
JNull == [t |-> "null", v |-> 0]
JNum(n) == [t |-> "num", v |-> n]
JStr(s) == [t |-> "str", v |-> s]
JLit(s) == JStr(Lit(s))
JList(items) == [t |-> "list", v |-> items]
JDict(f) == [t |-> "dict", v |-> f]
EmptyDict == JDict(<<>>)

IsDict(j) == j.t = "dict"
Has(j, k) == k \in DOMAIN j.v
\* dict.get(k, default), of a value known to be a dict
Get(j, k, default) == IF Has(j, k) THEN j.v[k] ELSE default

\* Python truthiness
Truthy(j) ==
    CASE j.t = "null" -> FALSE
      [] j.t = "num" -> j.v # 0
      [] j.t = "str" -> j.v # <<>>
      [] j.t = "list" -> j.v # <<>>
      [] j.t = "dict" -> DOMAIN j.v # {}

\* hashable values can be dictionary keys; a list or a dict raises TypeError
Hashable(j) == j.t \in {"null", "num", "str"}

(***************************************************************************)
(* Content text: a string json.loads rejects (plain) or the serialisation  *)
(* of a JSON value (json)                                                  *)
(***************************************************************************)
PlainText(s) == [kind |-> "plain", s |-> s, doc |-> JNull]
JsonText(doc) == [kind |-> "json", s |-> <<>>, doc |-> doc]

\* the order json.dumps writes the keys of the documents modelled here
KeyOrder ==
    <<"title", "executive_summary", "introduction", "main_sections", "section_title",
      "content", "key_points", "concepts_glossary", "term", "key_takeaways", "conclusion">>

\* a newline inside a JSON string is written as the two characters \n
RECURSIVE Escape(_)
Escape(s) ==
    IF s = <<>> THEN <<>>
    ELSE LET r == Head(s) IN
         IF r.c = "\n"
         THEN Cat(Lit("\\n"), Escape(IF r.n = 1 THEN Tail(s) ELSE <<Run(r.c, r.n - 1)>> \o Tail(s)))
         ELSE Cat(<<r>>, Escape(Tail(s)))

RECURSIVE SetToSeq(_)
SetToSeq(S) == IF S = {} THEN <<>> ELSE LET e == CHOOSE e \in S : TRUE IN <<e>> \o SetToSeq(S \ {e})

\* the keys of a dict in the order it holds them
DictKeys(j) ==
    SelectSeq(KeyOrder, LAMBDA k : k \in DOMAIN j.v)
    \o SetToSeq(DOMAIN j.v \ {KeyOrder[i] : i \in DOMAIN KeyOrder})

RECURSIVE Dumps(_)
Dumps(j) ==
    CASE j.t = "null" -> Lit("null")
      [] j.t = "num" -> Lit(ToString(j.v))
      [] j.t = "str" -> Cat(Cat(Lit("\""), Escape(j.v)), Lit("\""))
      [] j.t = "list" ->
            Cat(Cat(Lit("["), Join([i \in DOMAIN j.v |-> Dumps(j.v[i])], Lit(", "))), Lit("]"))
      [] j.t = "dict" ->
            LET keys == DictKeys(j)
                item(k) == Cat(Lit("\"" \o k \o "\": "), Dumps(j.v[k]))
            IN Cat(Cat(Lit("{"), Join([i \in DOMAIN keys |-> item(keys[i])], Lit(", "))), Lit("}"))

\* the characters of a content text
TextOf(text) == IF text.kind = "plain" THEN text.s ELSE Dumps(text.doc)

\* a dict from a sequence of <<key, value>> pairs
RECURSIVE DictOf(_)
DictOf(pairs) ==
    IF pairs = <<>> THEN <<>> ELSE (pairs[1][1] :> pairs[1][2]) @@ DictOf(Tail(pairs))
Obj(pairs) == JDict(DictOf(pairs))

(***************************************************************************)
(* Iteration and exceptions                                                *)
(***************************************************************************)
RECURSIVE Chars(_)
Chars(s) ==
    IF s = <<>> THEN <<>>
    ELSE LET r == Head(s) IN
         (IF IsCharRun(r)
          THEN [i \in UpTo(r.n) |-> JStr(Rep(r.c, 1))]
          ELSE [i \in UpTo(Len(r.c)) |-> JStr(Rep("~", 1))])
         \o Chars(Tail(s))

\* "for e in j": a list gives its items, a string its characters, a dict its
\* keys; None and a number are not iterable (TypeError)
Iterable(j) == j.t \in {"list", "str", "dict"}
Items(j) ==
    CASE j.t = "list" -> j.v
      [] j.t = "str" -> Chars(j.v)
      [] j.t = "dict" -> LET ks == DictKeys(j) IN [i \in DOMAIN ks |-> JLit(ks[i])]
      [] OTHER -> <<>>

(***************************************************************************)
(* AIService._create_enhanced_fallback_hierarchy                           *)
(***************************************************************************)
SentenceMinLen == 20
MainConceptCount == 4
SubConceptEnd == 8
MainTitleMax == 60
SubTitleMax == 50
HighImportanceCount == 2

\* [s.strip() for s in text.split('.') if s.strip() and len(s.strip()) > 20]
Sentences(s) ==
    LET pieces == Split(s, ".", 1)
        stripped == [i \in DOMAIN pieces |-> Strip(pieces[i])]
    IN SelectSeq(stripped, LAMBDA p : p # <<>> /\ StrLen(p) > SentenceMinLen)

\* [p.strip() for p in text.split('\n\n') if p.strip()]
Paragraphs(s) ==
    LET pieces == Split(s, "\n", 2)
        stripped == [i \in DOMAIN pieces |-> Strip(pieces[i])]
    IN SelectSeq(stripped, LAMBDA p : p # <<>>)

\* a builder that finds no level-1 source
NoMainConcepts(s) == <<>>

\* sentences[:4] if len(sentences) >= 4 else paragraphs[:4]
MainConcepts(s) ==
    IF Len(Sentences(s)) >= MainConceptCount
    THEN Slice(Sentences(s), 0, MainConceptCount)
    ELSE Slice(Paragraphs(s), 0, MainConceptCount)

\* a level-2 source that never turns to the paragraphs
SubConceptsOfSentences(s) ==
    IF Len(Sentences(s)) >= SubConceptEnd
    THEN Slice(Sentences(s), MainConceptCount, SubConceptEnd)
    ELSE <<>>

\* sentences[4:8] if len(sentences) >= 8 else paragraphs[4:8] if len(paragraphs) >= 8 else []
SubConcepts(s) ==
    IF Len(Sentences(s)) >= SubConceptEnd
    THEN Slice(Sentences(s), MainConceptCount, SubConceptEnd)
    ELSE IF Len(Paragraphs(s)) >= SubConceptEnd
    THEN Slice(Paragraphs(s), MainConceptCount, SubConceptEnd)
    ELSE <<>>

\* f"{prefix}{i}"
Numbered(prefix, i) == Cat(Lit(prefix), Lit(ToString(i)))

Level1Node(concept, i) ==
    Obj(<< <<"id", JStr(Numbered("main_", i))>>,
           <<"title", JStr(Ellipsis(concept, MainTitleMax))>>,
           <<"description", JStr(concept)>>,
           <<"type", JLit("concept")>>,
           <<"importance", JLit(IF i < HighImportanceCount THEN "high" ELSE "medium")>> >>)

Level2Node(concept, i) ==
    Obj(<< <<"id", JStr(Numbered("sub_", i))>>,
           <<"title", JStr(Ellipsis(concept, SubTitleMax))>>,
           <<"description", JStr(concept)>>,
           <<"type", JLit("definition")>>,
           <<"importance", JLit("medium")>> >>)

FallbackLevels(main, sub) ==
    (IF main # <<>>
     THEN << Obj(<< <<"level", JNum(1)>>, <<"title", JLit("Main Concepts")>>,
                    <<"nodes", JList([i \in DOMAIN main |-> Level1Node(main[i], i - 1)])>> >>) >>
     ELSE <<>>)
    \o
    (IF sub # <<>>
     THEN << Obj(<< <<"level", JNum(2)>>, <<"title", JLit("Supporting Details")>>,
                    <<"nodes", JList([i \in DOMAIN sub |-> Level2Node(sub[i], i - 1)])>> >>) >>
     ELSE <<>>)

\* a builder that connects nothing
FallbackRelationshipsNone(levels, main, sub) == <<>>

\* relationships for i up to the smaller count, that count included
FallbackRelationshipsInclusive(levels, main, sub) ==
    IF Len(levels) >= 2
    THEN [i \in UpTo(Min(Len(main), Len(sub)) + 1) |->
            Obj(<< <<"source", JStr(Numbered("main_", i - 1))>>,
                   <<"target", JStr(Numbered("sub_", i - 1))>>,
                   <<"relationship_type", JLit("related")>>,
                   <<"strength", JLit("medium")>> >>)]
    ELSE <<>>

\* for i in range(min(len(main_concepts), len(sub_concepts))) (ai_service.py 546-556)
FallbackRelationships(levels, main, sub) ==
    IF Len(levels) >= 2
    THEN [i \in UpTo(Min(Len(main), Len(sub))) |->
            Obj(<< <<"source", JStr(Numbered("main_", i - 1))>>,
                   <<"target", JStr(Numbered("sub_", i - 1))>>,
                   <<"relationship_type", JLit("related")>>,
                   <<"strength", JLit("medium")>> >>)]
    ELSE <<>>

\* range(a, b) as the ids prefix_a .. prefix_(b-1)
IdRange(prefix, a, b) == [i \in UpTo(b - a) |-> JStr(Numbered(prefix, a + i - 1))]

\* the dict the try block returns for the text s (ai_service.py 500-577)
EnhancedHierarchy(s) ==
    LET main == MainConcepts(s)
        sub == SubConcepts(s)
        levels == FallbackLevels(main, sub)
    IN Obj(<< <<"main_topic",
                Obj(<< <<"title", JLit("Content Analysis")>>,
                       <<"description", JLit("Structured breakdown of the content")>> >>)>>,
              <<"hierarchy_levels", JList(levels)>>,
              <<"relationships", JList(FallbackRelationships(levels, main, sub))>>,
              <<"learning_path",
                JList(IF main # <<>>
                      THEN << Obj(<< <<"step", JNum(1)>>, <<"focus", JLit("main_0")>>,
                                     <<"description", JLit("Start with the fundamental concepts")>> >>) >>
                      ELSE <<>>)>>,
              <<"difficulty_progression",
                Obj(<< <<"beginner_nodes", JList(IdRange("main_", 0, Min(HighImportanceCount, Len(main))))>>,
                       <<"intermediate_nodes",
                         JList(IdRange("main_", HighImportanceCount, Len(main))
                               \o IdRange("sub_", 0, Min(HighImportanceCount, Len(sub))))>>,
                       <<"advanced_nodes", JList(IdRange("sub_", HighImportanceCount, Len(sub)))>> >>)>> >>)

\* the dict of the except branch (ai_service.py 579-608)
MinimalHierarchy ==
    Obj(<< <<"main_topic",
             Obj(<< <<"title", JLit("Content")>>,
                    <<"description", JLit("Basic content structure")>> >>)>>,
           <<"hierarchy_levels",
             JList(<< Obj(<< <<"level", JNum(1)>>, <<"title", JLit("Main Topic")>>,
                             <<"nodes",
                               JList(<< Obj(<< <<"id", JLit("main_topic")>>,
                                               <<"title", JLit("Main Content")>>,
                                               <<"description", JLit("Primary content area")>>,
                                               <<"type", JLit("concept")>>,
                                               <<"importance", JLit("high")>> >>) >>)>> >>) >>)>>,
           <<"relationships", JList(<<>>)>>,
           <<"learning_path", JList(<<>>)>>,
           <<"difficulty_progression",
             Obj(<< <<"beginner_nodes", JList(<<JLit("main_topic")>>)>>,
                    <<"intermediate_nodes", JList(<<>>)>>,
                    <<"advanced_nodes", JList(<<>>)>> >>)>> >>)

\* if x.get(k): text_parts.append(x[k])
Appended(x, k) == IF Truthy(Get(x, k, JNull)) THEN <<x.v[k]>> ELSE <<>>
\* if x.get(k): text_parts.extend(x[k])
Extended(x, k) == IF Truthy(Get(x, k, JNull)) THEN Items(x.v[k]) ELSE <<>>
\* extend of a value that is not iterable raises TypeError
ExtendRaises(x, k) == Truthy(Get(x, k, JNull)) /\ ~Iterable(x.v[k])

\* the body of the loop over main_sections (ai_service.py 626-632): .get of a
\* section that is no dict raises AttributeError
StructuredSectionRaises(section) == ~IsDict(section) \/ ExtendRaises(section, "key_points")
RECURSIVE StructuredSectionParts(_)
StructuredSectionParts(sections) ==
    IF sections = <<>> THEN <<>>
    ELSE Appended(Head(sections), "section_title") \o Appended(Head(sections), "content")
         \o Extended(Head(sections), "key_points") \o StructuredSectionParts(Tail(sections))

\* the statements of _extract_from_structured_content that raise for a dict
StructuredRaises(d) ==
    \/ /\ Truthy(Get(d, "main_sections", JNull))
       /\ \/ ~Iterable(d.v["main_sections"])
          \/ \E i \in DOMAIN Items(d.v["main_sections"]) :
                StructuredSectionRaises(Items(d.v["main_sections"])[i])
    \/ ExtendRaises(d, "key_takeaways")

\* text_parts before the join, for a dict that raised nothing so far
StructuredParts(d) ==
    Appended(d, "title") \o Appended(d, "executive_summary")
    \o (IF Truthy(Get(d, "main_sections", JNull))
        THEN StructuredSectionParts(Items(d.v["main_sections"])) ELSE <<>>)
    \o Extended(d, "key_takeaways")

\* AIService._extract_from_structured_content of a dict (ai_service.py 610-634):
\* [ok |-> FALSE] when it raises; ' '.join raises for a part that is no string
extract_from_structured_content(d) ==
    IF StructuredRaises(d) THEN [ok |-> FALSE, val |-> <<>>]
    ELSE IF \E i \in DOMAIN StructuredParts(d) : StructuredParts(d)[i].t # "str"
    THEN [ok |-> FALSE, val |-> <<>>]
    ELSE [ok |-> TRUE,
          val |-> Join([i \in DOMAIN StructuredParts(d) |-> StructuredParts(d)[i].v], Rep(" ", 1))]

\* str(content) of a value that is no dict: a string is itself
PyStr(j) ==
    CASE j.t = "str" -> j.v
      [] j.t = "null" -> Lit("None")
      [] j.t = "num" -> Lit(ToString(j.v))
      [] OTHER -> Dumps(j)

\* text_content of the try block (ai_service.py 494-498)
FallbackText(content) ==
    IF IsDict(content) THEN extract_from_structured_content(content)
    ELSE [ok |-> TRUE, val |-> PyStr(content)]

\* a builder whose exception nothing catches: no hierarchy comes back
FallbackWithoutHandler(content) ==
    IF FallbackText(content).ok THEN EnhancedHierarchy(FallbackText(content).val) ELSE JNull

\* try: the enhanced hierarchy; except Exception: the minimal one
create_enhanced_fallback_hierarchy(content) ==
    IF FallbackText(content).ok
    THEN EnhancedHierarchy(FallbackText(content).val)
    ELSE MinimalHierarchy

(***************************************************************************)
(* generate_graph_data: the assembler                                      *)
(***************************************************************************)
\* a numbering that starts one too high
NodeIdFromOne(counter) == ToString(counter + 1)

\* str(node_counter)
NodeId(counter) == ToString(counter)

\* one size for every node
NodeSizeFlat(importance) == 28

\* size_map.get(importance, 28)
NodeSize(importance) ==
    CASE importance = JLit("high") -> 35
      [] importance = JLit("medium") -> 28
      [] importance = JLit("low") -> 22
      [] OTHER -> 28

\* level_colors.get(level_num, '#6b7280')
LevelColor(level_num) ==
    CASE level_num = JNum(1) -> "#3b82f6"
      [] level_num = JNum(2) -> "#10b981"
      [] level_num = JNum(3) -> "#f59e0b"
      [] level_num = JNum(4) -> "#ef4444"
      [] level_num = JNum(5) -> "#8b5cf6"
      [] OTHER -> "#6b7280"

\* type_colors.get(node_type, level_colors.get(level_num, '#6b7280'))
NodeColor(node_type, level_num) ==
    CASE node_type = JLit("concept") -> "#3b82f6"
      [] node_type = JLit("definition") -> "#10b981"
      [] node_type = JLit("principle") -> "#f59e0b"
      [] node_type = JLit("example") -> "#ef4444"
      [] node_type = JLit("application") -> "#8b5cf6"
      [] OTHER -> LevelColor(level_num)

\* strength_values.get(strength, 2)
LinkValue(strength) ==
    CASE strength = JLit("strong") -> 3
      [] strength = JLit("medium") -> 2
      [] strength = JLit("weak") -> 1
      [] OTHER -> 2

\* str.lower() of the titles that occur here; "x" is a lowercase letter
LowerLit(c) ==
    CASE c = "Photosynthesis" -> "photosynthesis"
      [] c = "Light" -> "light"
      [] c = "Water" -> "water"
      [] OTHER -> c
Lower(s) == [i \in DOMAIN s |-> Run(LowerLit(s[i].c), s[i].n)]

MainNode(main_topic, content) ==
    [id |-> NodeId(0),
     name |-> Get(main_topic, "title", content.title),
     type |-> JLit("main_topic"),
     level |-> JNum(0),
     size |-> 50,
     content |-> Get(main_topic, "description", JLit("Central concept")),
     complexity |-> Get(main_topic, "complexity_level", JLit("intermediate")),
     color |-> "#1e3a8a"]

\* f'Node {node_counter}'
DefaultTitle(counter) == JStr(Cat(Lit("Node "), Lit(ToString(counter))))
\* f'Node {node_counter}'.lower(), or the given title lowered
LoweredTitle(node_data, counter) ==
    IF Has(node_data, "title")
    THEN JStr(Lower(node_data.v["title"].v))
    ELSE JStr(Cat(Lit("node "), Lit(ToString(counter))))

\* the statements of the inner loop body that can raise: .get of a non-dict,
\* .lower() of a non-string title, an unhashable importance, type, level or id
NodeRaises(node_data, level_num) ==
    \/ ~IsDict(node_data)
    \/ /\ IsDict(node_data)
       /\ \/ Get(node_data, "title", JLit("Node")).t # "str"
          \/ ~Hashable(Get(node_data, "importance", JLit("medium")))
          \/ ~Hashable(Get(node_data, "type", JLit("concept")))
          \/ ~Hashable(level_num)
          \/ ~Hashable(Get(node_data, "id", JLit("node")))

ConceptNode(node_data, level_num, counter) ==
    [id |-> NodeId(counter),
     name |-> Get(node_data, "title", DefaultTitle(counter)),
     type |-> Get(node_data, "type", JLit("concept")),
     level |-> level_num,
     size |-> NodeSize(Get(node_data, "importance", JLit("medium"))),
     content |-> Get(node_data, "description", JLit("")),
     importance |-> Get(node_data, "importance", JLit("medium")),
     prerequisites |-> Get(node_data, "prerequisites", JList(<<>>)),
     examples |-> Get(node_data, "examples", JList(<<>>)),
     applications |-> Get(node_data, "applications", JList(<<>>)),
     color |-> NodeColor(Get(node_data, "type", JLit("concept")), level_num)]

HierarchyLink(target) == [source |-> "0", target |-> target, value |-> 3, type |-> JLit("hierarchy")]

\* every node linked to the root, whatever its level
LinkedToRootAlways(level_num) == TRUE

\* if level_num == 1 (app.py 183)
LinkedToRoot(level_num) == level_num = JNum(1)

\* a counter that stays where it is
CounterStuck(counter) == counter

\* node_counter += 1 (app.py 192)
CounterAfter(counter) == counter + 1

\* one pass of the inner loop (app.py 146-192) over the nodes left in a level
RECURSIVE AssembleLevel(_, _, _)
AssembleLevel(nodes, level_num, acc) ==
    IF ~acc.ok \/ nodes = <<>> THEN acc
    ELSE LET node_data == Head(nodes) IN
         IF NodeRaises(node_data, level_num) THEN [acc EXCEPT !.ok = FALSE]
         ELSE LET node_id == NodeId(acc.counter)
                  key == Get(node_data, "id", LoweredTitle(node_data, acc.counter))
              IN AssembleLevel(Tail(nodes), level_num,
                    [ok |-> TRUE,
                     nodes |-> Append(acc.nodes, ConceptNode(node_data, level_num, acc.counter)),
                     links |-> IF LinkedToRoot(level_num)
                               THEN Append(acc.links, HierarchyLink(node_id))
                               ELSE acc.links,
                     map |-> (key :> node_id) @@ acc.map,
                     counter |-> CounterAfter(acc.counter)])

\* the outer loop (app.py 141-192) over the hierarchy levels left
RECURSIVE AssembleLevels(_, _)
AssembleLevels(levels, acc) ==
    IF ~acc.ok \/ levels = <<>> THEN acc
    ELSE LET level_data == Head(levels) IN
         IF ~IsDict(level_data) THEN [acc EXCEPT !.ok = FALSE]
         ELSE LET level_num == Get(level_data, "level", JNum(1))
                  nodes == Get(level_data, "nodes", JList(<<>>))
              IN IF ~Iterable(nodes) THEN [acc EXCEPT !.ok = FALSE]
                 ELSE AssembleLevels(Tail(levels), AssembleLevel(Items(nodes), level_num, acc))

\* a lookup that invents an id for a key it does not hold
ResolveUnchecked(map, key) == IF key \in DOMAIN map THEN map[key] ELSE "ghost"

\* node_id_map.get(key): the id, or "" for None
Resolve(map, key) == IF key \in DOMAIN map THEN map[key] ELSE ""

\* guards that let a link through with an end missing, or with both ends equal
LinkAddedUnresolved(source_id, target_id) == source_id # target_id
LinkAddedWithLoops(source_id, target_id) == source_id # "" /\ target_id # ""

\* if source_id and target_id and source_id != target_id
LinkAdded(source_id, target_id) == source_id # "" /\ target_id # "" /\ source_id # target_id

\* the statements of the relationship loop body that can raise: .get of a
\* non-dict, an unhashable source or target, an unhashable strength of a link
RelationshipRaises(relationship, map) ==
    \/ ~IsDict(relationship)
    \/ /\ IsDict(relationship)
       /\ \/ ~Hashable(Get(relationship, "source", JLit("")))
          \/ ~Hashable(Get(relationship, "target", JLit("")))
          \/ /\ LinkAdded(Resolve(map, Get(relationship, "source", JLit(""))),
                          Resolve(map, Get(relationship, "target", JLit(""))))
             /\ ~Hashable(Get(relationship, "strength", JLit("medium")))

\* the relationship loop (app.py 194-212)
RECURSIVE AssembleRelationships(_, _)
AssembleRelationships(rels, acc) ==
    IF ~acc.ok \/ rels = <<>> THEN acc
    ELSE LET relationship == Head(rels) IN
         IF RelationshipRaises(relationship, acc.map) THEN [acc EXCEPT !.ok = FALSE]
         ELSE LET source_id == Resolve(acc.map, Get(relationship, "source", JLit("")))
                  target_id == Resolve(acc.map, Get(relationship, "target", JLit("")))
              IN AssembleRelationships(Tail(rels),
                    IF LinkAdded(source_id, target_id)
                    THEN [acc EXCEPT !.links = Append(@,
                            [source |-> source_id,
                             target |-> target_id,
                             value |-> LinkValue(Get(relationship, "strength", JLit("medium"))),
                             type |-> Get(relationship, "relationship_type", JLit("related")),
                             description |-> Get(relationship, "description", JLit(""))])]
                    ELSE acc)

BasicNodes ==
    << [id |-> "1", name |-> JLit("Key Concept 1"), type |-> JLit("concept"), level |-> JNum(1),
        size |-> 30, content |-> JLit("Primary concept from the content"), color |-> "#3b82f6"],
       [id |-> "2", name |-> JLit("Key Concept 2"), type |-> JLit("definition"), level |-> JNum(1),
        size |-> 28, content |-> JLit("Secondary concept from the content"), color |-> "#10b981"] >>

BasicLinks ==
    << [source |-> "0", target |-> "1", value |-> 3, type |-> JLit("hierarchy")],
       [source |-> "0", target |-> "2", value |-> 3, type |-> JLit("hierarchy")],
       [source |-> "1", target |-> "2", value |-> 2, type |-> JLit("related")] >>

\* a test that takes a graph with one hierarchy node for bare too
OnlyMainTopicOrOneMore(nodes) == Len(nodes) <= 2

\* a test that never finds the graph bare
NeverOnlyMainTopic(nodes) == FALSE

\* if len(nodes) == 1 (app.py 218-248)
OnlyMainTopic(nodes) == Len(nodes) = 1

\* an assembler without the basic structure
SkipBasicStructure(acc) == acc

EnsureBasicStructure(acc) ==
    IF OnlyMainTopic(acc.nodes)
    THEN [acc EXCEPT !.nodes = @ \o BasicNodes, !.links = @ \o BasicLinks]
    ELSE acc

\* len(x) of a list, string or dict
PyLen(j) ==
    CASE j.t = "list" -> Len(j.v)
      [] j.t = "str" -> StrLen(j.v)
      [] j.t = "dict" -> Cardinality(DOMAIN j.v)
      [] OTHER -> 0

\* nodes, links, node_counter and node_id_map once the root is in (app.py 111-139)
\* the same start with an id map that holds nothing
FirstAccUnseeded(main_topic, content) ==
    [ok |-> TRUE,
     nodes |-> <<MainNode(main_topic, content)>>,
     links |-> <<>>,
     map |-> [k \in {} |-> ""],
     counter |-> 1]

FirstAcc(main_topic, content) ==
    [ok |-> TRUE,
     nodes |-> <<MainNode(main_topic, content)>>,
     links |-> <<>>,
     map |-> (JLit("main") :> "0"),
     counter |-> 1]

\* the returned dict (app.py 250-260)
AssembledGraph(hierarchy_data, acc) ==
    [nodes |-> acc.nodes,
     links |-> acc.links,
     learning_path |-> Get(hierarchy_data, "learning_path", JList(<<>>)),
     difficulty_progression |-> Get(hierarchy_data, "difficulty_progression", EmptyDict),
     metadata |->
        [total_levels |-> PyLen(Get(hierarchy_data, "hierarchy_levels", JList(<<>>))),
         total_concepts |-> Len(acc.nodes),
         complexity |-> Get(Get(hierarchy_data, "main_topic", EmptyDict),
                            "complexity_level", JLit("intermediate"))]]

\* the try block of generate_graph_data after the 'error' test (app.py 110-260):
\* [ok |-> FALSE] when a statement raises, else the graph
Assemble(hierarchy_data, content) ==
    LET main_topic == Get(hierarchy_data, "main_topic", EmptyDict)
        levels == Get(hierarchy_data, "hierarchy_levels", JList(<<>>))
        rels == Get(hierarchy_data, "relationships", JList(<<>>))
        failed == [ok |-> FALSE, graph |-> <<>>]
    IN IF ~IsDict(main_topic) \/ ~Iterable(levels) THEN failed
       ELSE LET acc0 == FirstAcc(main_topic, content)
                acc1 == AssembleLevels(Items(levels), acc0)
            IN IF ~acc1.ok \/ ~Iterable(rels) THEN failed
               ELSE LET acc2 == AssembleRelationships(Items(rels), acc1)
                        acc3 == EnsureBasicStructure(acc2)
                    IN IF ~acc2.ok THEN failed
                       ELSE [ok |-> TRUE, graph |-> AssembledGraph(hierarchy_data, acc3)]

(***************************************************************************)
(* create_simple_graph_from_text                                           *)
(***************************************************************************)
SimpleParagraphMax == 10
SimpleSubTopicCount == 5
SimpleNameMax == 50
RootContentMax == 200

SimpleNode(paragraph, i) ==
    [id |-> ToString(i + 1),
     name |-> JStr(Ellipsis(paragraph, SimpleNameMax)),
     type |-> JLit(IF i < SimpleSubTopicCount THEN "sub_topic" ELSE "key_point"),
     level |-> JNum(1),
     size |-> IF i < SimpleSubTopicCount THEN 25 ELSE 20,
     content |-> JStr(paragraph)]

\* text.split of a value that is not a string raises AttributeError
create_simple_graph_from_text(text, title) ==
    IF text.t # "str" THEN [ok |-> FALSE, graph |-> <<>>]
    ELSE LET paragraphs == Slice(Paragraphs(text.v), 0, SimpleParagraphMax) IN
         [ok |-> TRUE,
          graph |->
            [nodes |-> << [id |-> "0", name |-> title, type |-> JLit("main_topic"),
                           level |-> JNum(0), size |-> 40,
                           content |-> JStr(Ellipsis(text.v, RootContentMax))] >>
                       \o [i \in DOMAIN paragraphs |-> SimpleNode(paragraphs[i], i - 1)],
             links |-> [i \in DOMAIN paragraphs |->
                          [source |-> "0", target |-> ToString(i), value |-> 2]]]]

(***************************************************************************)
(* extract_text_from_content                                               *)
(***************************************************************************)
\* 'content' in section: a key of a dict, an item of a list, a substring of a
\* string (no string here contains it); a number or None raises TypeError
ContainsRaises(section) == section.t \in {"null", "num"}
Contains(section, k) ==
    CASE section.t = "dict" -> Has(section, k)
      [] section.t = "list" -> \E i \in DOMAIN section.v : section.v[i] = JLit(k)
      [] OTHER -> FALSE

\* the text parts in the order the code appends them
SectionParts(sections) ==
    LET with == SelectSeq(sections, LAMBDA sec : Contains(sec, "content"))
    IN [i \in DOMAIN with |-> with[i].v["content"]]

TextParts(parsed) ==
    (IF Has(parsed, "executive_summary") THEN <<parsed.v["executive_summary"]>> ELSE <<>>)
    \o (IF Has(parsed, "introduction") THEN <<parsed.v["introduction"]>> ELSE <<>>)
    \o (IF Has(parsed, "main_sections") THEN SectionParts(Items(parsed.v["main_sections"])) ELSE <<>>)
    \o (IF Has(parsed, "conclusion") THEN <<parsed.v["conclusion"]>> ELSE <<>>)

\* ' '.join(text_parts) raises TypeError when a part is no string
JoinRaises(parts) == \E i \in DOMAIN parts : parts[i].t # "str"

\* the loop over main_sections raises past the "except json.JSONDecodeError"
SectionsRaise(sections) ==
    \/ ~Iterable(sections)
    \/ \E i \in DOMAIN Items(sections) :
          \/ ContainsRaises(Items(sections)[i])
          \/ Contains(Items(sections)[i], "content") /\ ~IsDict(Items(sections)[i])

ExtractFrom(parts, text) ==
    IF parts # <<>>
    THEN IF JoinRaises(parts) THEN [ok |-> FALSE, val |-> JNull]
         ELSE [ok |-> TRUE, val |-> JStr(Join([i \in DOMAIN parts |-> parts[i].v], Rep(" ", 1)))]
    ELSE IF Has(text.doc, "content") THEN [ok |-> TRUE, val |-> text.doc.v["content"]]
    ELSE [ok |-> TRUE, val |-> JStr(TextOf(text))]

\* [ok |-> FALSE] when it raises, else the value it returns (not always a string)
extract_text_from_content(text) ==
    IF text.kind = "plain" \/ ~IsDict(text.doc) THEN [ok |-> TRUE, val |-> JStr(TextOf(text))]
    ELSE IF Has(text.doc, "main_sections") /\ SectionsRaise(text.doc.v["main_sections"])
    THEN [ok |-> FALSE, val |-> JNull]
    ELSE ExtractFrom(TextParts(text.doc), text)

(***************************************************************************)
(* generate_legacy_graph_data                                              *)
(***************************************************************************)
SectionContentMax == 200
PointNameMax == 30

\* x[:k] + '...' if len(x) > k else x: len of None or a number raises, and so
\* does the sum of a long list or dict with a string
Sized(j) == j.t \in {"str", "list", "dict"}
TruncRaises(j, k) == ~Sized(j) \/ (PyLen(j) > k /\ j.t # "str")
Trunc(j, k) == IF j.t = "str" THEN JStr(Ellipsis(j.v, k)) ELSE j

\* every link drawn from the root
LegacyLinkFromRoot(source, target, value) ==
    [source |-> "0", target |-> ToString(target), value |-> value]

\* {'source': str(...), 'target': str(node_id), 'value': ...} (app.py 314-318, 337-341)
LegacyLink(source, target, value) ==
    [source |-> ToString(source), target |-> ToString(target), value |-> value]

\* the level-2 nodes of key points or takeaways (app.py 325-343, 408-425)
RECURSIVE LegacyPoints(_, _, _)
LegacyPoints(points, parent, acc) ==
    IF ~acc.ok \/ points = <<>> THEN acc
    ELSE LET point == Head(points) IN
         IF TruncRaises(point, PointNameMax) THEN [acc EXCEPT !.ok = FALSE]
         ELSE LegacyPoints(Tail(points), parent,
                [ok |-> TRUE,
                 nodes |-> Append(acc.nodes,
                    [id |-> ToString(acc.node_id), name |-> Trunc(point, PointNameMax),
                     type |-> JLit("key_point"), level |-> JNum(2), size |-> 20,
                     content |-> point]),
                 links |-> Append(acc.links, LegacyLink(parent, acc.node_id, 2)),
                 node_id |-> acc.node_id + 1])

\* f'Section {i+1}'
SectionTitle(i) == JStr(Cat(Lit("Section "), Lit(ToString(i + 1))))

\* the loop over main_sections (app.py 301-343); i counts the sections done
RECURSIVE LegacySections(_, _, _)
LegacySections(sections, i, acc) ==
    IF ~acc.ok \/ sections = <<>> THEN acc
    ELSE LET section == Head(sections) IN
         IF \/ ~IsDict(section)
            \/ IsDict(section) /\ TruncRaises(Get(section, "content", JLit("")), SectionContentMax)
         THEN [acc EXCEPT !.ok = FALSE]
         ELSE LET key_points == Get(section, "key_points", JNull)
                  points == IF Truthy(key_points) THEN Items(key_points) ELSE <<>>
                  section_node ==
                    [id |-> ToString(acc.node_id),
                     name |-> Get(section, "section_title", SectionTitle(i)),
                     type |-> JLit("sub_topic"), level |-> JNum(1), size |-> 30,
                     content |-> Trunc(Get(section, "content", JLit("")), SectionContentMax),
                     children |-> JList(points)]
                  acc1 == [ok |-> TRUE,
                           nodes |-> Append(acc.nodes, section_node),
                           links |-> Append(acc.links, LegacyLink(0, acc.node_id, 3)),
                           node_id |-> acc.node_id + 1]
              IN IF Truthy(key_points) /\ ~Iterable(key_points) THEN [acc EXCEPT !.ok = FALSE]
                 ELSE LegacySections(Tail(sections), i + 1, LegacyPoints(points, acc.node_id, acc1))

\* a level-1 group node linked to the root (app.py 347-365, 388-406)
GroupNode(acc, name, text) ==
    [ok |-> TRUE,
     nodes |-> Append(acc.nodes,
        [id |-> ToString(acc.node_id), name |-> JLit(name), type |-> JLit("sub_topic"),
         level |-> JNum(1), size |-> 30, content |-> JLit(text)]),
     links |-> Append(acc.links, LegacyLink(0, acc.node_id, 3)),
     node_id |-> acc.node_id + 1]

\* the loop over concepts_glossary.items() (app.py 367-384)
RECURSIVE LegacyConcepts(_, _, _, _)
LegacyConcepts(keys, glossary, parent, acc) ==
    IF keys = <<>> THEN acc
    ELSE LegacyConcepts(Tail(keys), glossary, parent,
            [ok |-> TRUE,
             nodes |-> Append(acc.nodes,
                [id |-> ToString(acc.node_id), name |-> JLit(Head(keys)), type |-> JLit("concept"),
                 level |-> JNum(2), size |-> 25, content |-> glossary.v[Head(keys)]]),
             links |-> Append(acc.links, LegacyLink(parent, acc.node_id, 2)),
             node_id |-> acc.node_id + 1])

LegacyFailed == [ok |-> FALSE, nodes |-> <<>>, links |-> <<>>, node_id |-> 0]

\* the title node (app.py 283-297)
LegacyRoot(structured_data, content) ==
    [ok |-> TRUE,
     nodes |-> << [id |-> ToString(0),
                   name |-> Get(structured_data, "title", content.title),
                   type |-> JLit("main_topic"), level |-> JNum(0), size |-> 40,
                   content |-> Get(structured_data, "executive_summary", JLit("Main content"))] >>,
     links |-> <<>>,
     node_id |-> 1]

\* if structured_data.get('main_sections') (app.py 299-343)
LegacyMainSections(sections, acc) ==
    IF ~Truthy(sections) THEN acc
    ELSE IF ~Iterable(sections) THEN LegacyFailed
    ELSE LegacySections(Items(sections), 0, acc)

\* if structured_data.get('concepts_glossary') (app.py 345-384)
LegacyGlossary(glossary, acc) ==
    IF ~acc.ok \/ ~Truthy(glossary) THEN acc
    ELSE IF ~IsDict(glossary) THEN LegacyFailed
    ELSE LegacyConcepts(DictKeys(glossary), glossary, acc.node_id,
            GroupNode(acc, "Key Concepts", "Important concepts and definitions"))

\* if structured_data.get('key_takeaways') (app.py 386-425)
LegacyTakeaways(takeaways, acc) ==
    IF ~acc.ok \/ ~Truthy(takeaways) THEN acc
    ELSE IF ~Iterable(takeaways) THEN LegacyFailed
    ELSE LegacyPoints(Items(takeaways), acc.node_id,
            GroupNode(acc, "Key Takeaways", "Main lessons and insights"))

\* the body of the try block for a parsed document (app.py 282-430)
LegacyBuild(structured_data, content) ==
    IF ~IsDict(structured_data) THEN LegacyFailed
    ELSE LegacyTakeaways(Get(structured_data, "key_takeaways", JNull),
            LegacyGlossary(Get(structured_data, "concepts_glossary", JNull),
                LegacyMainSections(Get(structured_data, "main_sections", JNull),
                    LegacyRoot(structured_data, content))))

LegacyRaised == [ok |-> FALSE, tier |-> "none", graph |-> <<>>]

\* the simple graph of a text value, as the result of the legacy builder
SimpleResult(g) ==
    IF g.ok THEN [ok |-> TRUE, tier |-> "simple", graph |-> g.graph] ELSE LegacyRaised

\* the handler of app.py 432-434
LegacyHandler(extracted, title) ==
    IF extracted.ok THEN SimpleResult(create_simple_graph_from_text(extracted.val, title))
    ELSE LegacyRaised

LegacyResult(built, content) ==
    IF built.ok
    THEN [ok |-> TRUE, tier |-> "legacy", graph |-> [nodes |-> built.nodes, links |-> built.links]]
    ELSE LegacyHandler(extract_text_from_content(content.content), content.title)

\* [ok, tier, graph]: ok is FALSE when the exception leaves the function
generate_legacy_graph_data(content) ==
    IF content.content.kind = "plain"
    THEN \* json.JSONDecodeError (app.py 276-278)
         SimpleResult(create_simple_graph_from_text(JStr(TextOf(content.content)), content.title))
    ELSE LegacyResult(LegacyBuild(content.content.doc, content), content)

(***************************************************************************)
(* Inputs: content records and backend answers                             *)
(***************************************************************************)
MaxSentences == 8
MaxParas == 8
MaxNodes == 2
MaxPoints == 2

X(n) == Rep("x", n)
\* a sentence of 21 letters, ". " after it
Sentence == Cat(X(SentenceMinLen + 1), <<Run(".", 1), Run(" ", 1)>>)
\* a one-letter paragraph and the blank line after it
Para == <<Run("x", 1), Run("\n", 2)>>
RECURSIVE Repeat(_, _)
Repeat(s, n) == IF n <= 0 THEN <<>> ELSE Cat(s, Repeat(s, n - 1))

\* "A. B. C."
TextABC == <<Run("x", 1), Run(".", 1), Run(" ", 1), Run("x", 1), Run(".", 1), Run(" ", 1),
             Run("x", 1), Run(".", 1)>>

\* sources at and over the title lengths: one paragraph each, and four long sentences
LongTexts ==
    {X(MainTitleMax), X(MainTitleMax + 1), Cat(X(MainTitleMax \div 2), Rep("y", MainTitleMax)),
     Repeat(Cat(X(MainTitleMax + 1), <<Run(".", 1), Run(" ", 1)>>), MainConceptCount)}

PlainTexts ==
    {PlainText(Repeat(Sentence, a)) : a \in 0..MaxSentences}
    \cup {PlainText(Repeat(Para, b)) : b \in 0..MaxParas}
    \cup {PlainText(t) : t \in LongTexts}
    \cup {PlainText(Repeat(Para, SimpleParagraphMax + 1))}
    \cup {PlainText(Repeat(Cat(X(SentenceMinLen), <<Run(".", 1), Run(" ", 1)>>), MainConceptCount))}
    \cup {PlainText(Cat(Repeat(Sentence, MainConceptCount), Repeat(Para, MaxParas))),
          PlainText(TextABC), PlainText(X(1))}

\* structured documents, well formed and not
Point(i) == JStr(X(i))
Section(k) ==
    Obj(<< <<"section_title", JLit("S")>>, <<"content", JStr(X(3))>>,
           <<"key_points", JList([i \in UpTo(k) |-> Point(i)])>> >>)
SectionLists ==
    {<<>>, <<Section(MaxPoints), Section(1)>>}
    \cup {<<Section(k)>> : k \in 0..MaxPoints}
    \cup {<<JNum(5)>>, <<JLit("abc")>>, <<EmptyDict>>, <<Section(1), JNum(5)>>,
          <<Obj(<< <<"content", JNum(7)>> >>)>>,
          <<Obj(<< <<"key_points", JNum(7)>> >>)>>}
DocExtras ==
    {<<>>,
     << <<"title", JLit("Doc")>>, <<"executive_summary", JStr(X(5))>> >>,
     << <<"executive_summary", JNum(5)>> >>,
     << <<"concepts_glossary", Obj(<< <<"term", JStr(X(4))>> >>)>> >>,
     << <<"concepts_glossary", JList(<<JNum(1)>>)>> >>,
     << <<"key_takeaways", JList(<<Point(1), Point(2)>>)>> >>,
     << <<"key_takeaways", JNum(3)>> >>,
     << <<"content", JNum(5)>>, <<"key_takeaways", JNum(3)>> >>,
     << <<"content", JStr(Para \o X(2))>>, <<"key_takeaways", JNum(3)>> >>}
Docs ==
    {JNull, JNum(5), JList(<<>>)}
    \cup {Obj(<< <<"main_sections", JList(ss)>> >>) : ss \in SectionLists}
    \cup {Obj(<< <<"main_sections", JNum(5)>> >>),
          Obj(<< <<"content", JNull>>, <<"key_takeaways", JNum(3)>> >>)}
    \cup {Obj(<< <<"main_sections", JList(<<Section(1)>>)>> >> \o e) : e \in DocExtras}

\* store_content always writes a title (database.py 51-64)
Contents == {[title |-> JLit("T"), content |-> t] : t \in PlainTexts \cup {JsonText(d) : d \in Docs}}

\* hierarchy nodes a, b, c, ... of a backend answer
NodeNames == <<"a", "b", "c", "d", "e", "f", "g", "h">>
Importances == <<"high", "low", "medium", "critical">>
HNode(i) ==
    Obj(<< <<"id", JLit(NodeNames[i])>>,
           <<"importance", JLit(Importances[((i - 1) % 4) + 1])>> >>
        \o (IF i = 1 THEN << <<"title", JLit("Light")>>, <<"type", JLit("widget")>> >> ELSE <<>>))
\* nodes from .. from + n - 1
HNodes(from, n) == [i \in UpTo(n) |-> HNode(from + i - 1)]
NodeTwists ==
    {<<>>, <<JNum(5)>>, <<EmptyDict>>, <<HNode(1)>>,
     <<Obj(<< <<"id", JLit("0")>>, <<"title", JLit("Photosynthesis")>> >>)>>,
     <<Obj(<< <<"id", JLit("z")>>, <<"title", JNum(5)>> >>)>>,
     <<Obj(<< <<"title", JLit("Water")>> >>)>>,
     <<Obj(<< <<"id", JList(<<>>)>> >>)>>}
HLevel(num, nodes) == Obj(<< <<"level", JNum(num)>>, <<"nodes", JList(nodes)>> >>)
LevelLists ==
    {<<HLevel(1, HNodes(1, k))>> : k \in 0..MaxNodes}
    \cup {<<HLevel(1, HNodes(1, 1) \o tw)>> : tw \in NodeTwists}
    \cup {<<HLevel(n, HNodes(1, 1))>> : n \in {0, 2}}
    \cup {<<HLevel(1, HNodes(1, k)), HLevel(2, HNodes(k + 1, m))>> : k, m \in 1..MaxNodes}
    \cup {<<EmptyDict>>, <<JNum(5)>>, <<Obj(<< <<"nodes", JNum(5)>> >>)>>,
          <<Obj(<< <<"nodes", JList(HNodes(1, 1))>> >>)>>}
HRel(source, target, strength) ==
    Obj(<< <<"source", JLit(source)>>, <<"target", JLit(target)>>,
           <<"relationship_type", JLit("causes")>>, <<"strength", JLit(strength)>> >>)
AnswerExtras ==
    {<<>>,
     << <<"error", JLit("quota")>> >>,
     << <<"main_topic", Obj(<< <<"title", JLit("Photosynthesis")>> >>)>> >>,
     << <<"main_topic", JLit("Photosynthesis")>> >>,
     << <<"relationships", JNum(5)>> >>,
     << <<"relationships", JList(<<JNum(5)>>)>> >>,
     << <<"relationships", JList(<<HRel("a", "b", "strong")>>)>> >>,
     << <<"relationships", JList(<<HRel("a", "a", "strong")>>)>> >>,
     << <<"relationships", JList(<<HRel("a", "ghost", "weak"), HRel("b", "a", "odd")>>)>> >>,
     << <<"relationships", JList(<<HRel("main", "a", "medium")>>)>> >>,
     << <<"relationships", JList(<<HRel("water", "a", "weak")>>)>> >>,
     << <<"relationships", JList(<<HRel("a", "c", "weak"), HRel("light", "b", "weak")>>)>> >>,
     << <<"relationships", JList(<<Obj(<< <<"source", JList(<<>>)>> >>)>>)>> >>,
     << <<"relationships",
         JList(<<Obj(<< <<"source", JLit("a")>>, <<"target", JLit("b")>>,
                        <<"strength", JList(<<>>)>> >>)>>)>> >>}
\* a title, one level with node a (high) and node b (low), and a strong a -> b
TitledHierarchy ==
    Obj(<< <<"main_topic", Obj(<< <<"title", JLit("Photosynthesis")>> >>)>>,
           <<"hierarchy_levels", JList(<<HLevel(1, HNodes(1, 2))>>)>>,
           <<"relationships", JList(<<HRel("a", "b", "strong")>>)>> >>)

\* what json.loads gives for the cleaned answer text
Answers ==
    {TitledHierarchy, JNull, JNum(5), JList(<<>>), EmptyDict,
     Obj(<< <<"hierarchy_levels", JList(<<HLevel(1, <<>>)>>)>>,
            <<"relationships", JList(<<HRel("main", "main", "strong"), HRel("main", "a", "strong")>>)>> >>),
     Obj(<< <<"hierarchy_levels", JList(<<>>)>> >>),
     Obj(<< <<"hierarchy_levels", JNull>>, <<"relationships", JList(<<>>)>> >>),
     Obj(<< <<"hierarchy_levels", JNum(0)>> >>),
     Obj(<< <<"hierarchy_levels", JLit("")>> >>),
     Obj(<< <<"hierarchy_levels", EmptyDict>> >>),
     Obj(<< <<"relationships", JList(<<HRel("a", "b", "strong")>>)>>,
            <<"main_topic", Obj(<< <<"title", JLit("Photosynthesis")>> >>)>> >>),
     Obj(<< <<"hierarchy_levels", JNum(5)>> >>),
     Obj(<< <<"hierarchy_levels", JLit("ab")>> >>)}
    \cup {Obj(<< <<"hierarchy_levels", JList(ls)>> >> \o e) : ls \in LevelLists, e \in AnswerExtras}

(***************************************************************************)
(* The derivation                                                          *)
(***************************************************************************)
VARIABLES content, configured, pc, outcome, hierarchy_data, graph, tier, raised, calls
\* the local state of each of the derivations that run side by side
VARIABLES derivations
\* the content collection, the request at the endpoint and its response
VARIABLES store, request, response
\* what json.loads gave for the backend's answer, if it gave anything
VARIABLES answer
\* one call of the fallback builder, taken alone
VARIABLES fallback
\* what AIService.generate_quiz returned to the quiz endpoint, and how
VARIABLES quiz
vars == <<content, configured, pc, outcome, hierarchy_data, graph, tier, raised, calls,
          derivations, store, request, response, answer, fallback, quiz>>
\* what one derivation, taken alone, never touches
rest == <<derivations, store, request, response, fallback, quiz>>

NoGraph == [nodes |-> <<>>, links |-> <<>>]

\* the derivations that may run side by side, each a call of generate_graph_data
\* with its own locals
Derivations == {1, 2}
NoAcc == [ok |-> TRUE, nodes |-> <<>>, links |-> <<>>, map |-> <<>>, counter |-> 0]
Idle(h) ==
    [pc |-> "idle", hierarchy_data |-> h, levels |-> <<>>, level_num |-> JNull,
     nodes_left |-> <<>>, rels |-> <<>>, acc |-> NoAcc, graph |-> NoGraph,
     overlapped |-> FALSE]
NoDerivations == [d \in Derivations |-> [Idle(JNull) EXCEPT !.pc = "off"]]

\* the document store_content inserts for a user (database.py 51-64)
Owned(c, user_id) == [user_id |-> user_id, title |-> c.title, content |-> c.content]
\* two users with one document each
Users == {"u1", "u2"}
StoreWith(c) ==
    (1 :> Owned(c, "u1")) @@ (2 :> Owned([title |-> JLit("T"), content |-> PlainText(TextABC)], "u2"))
NoContent == [user_id |-> "none", title |-> JNull, content |-> JNull]
NoResponse == [status |-> 0, body |-> "none"]
NoAnswer == [t |-> "none", v |-> 0]
NoFallback == [pc |-> "off", content |-> JNull, result |-> JNull]
NoQuiz == [outcome |-> "none", result |-> JNull]

\* content ids: 0 is no ObjectId at all, 3 is the id of no document
ContentIds == 0..3
GraphRequests ==
    {[route |-> "graph", user_id |-> u, content_id |-> i, num_questions |-> JNull] :
        u \in Users, i \in ContentIds}
    \cup {[route |-> "graph", user_id |-> "none", content_id |-> 1, num_questions |-> JNull]}

\* POST /api/quiz: the identity of the token, and content_id and
\* num_questions of the JSON body; content_id -1 is a body without one
QuizCounts == {JNull, JNum(0), JNum(1), JNum(50), JNum(51)}
QuizRequests ==
    {[route |-> "quiz", user_id |-> "u1", content_id |-> i, num_questions |-> n] :
        i \in {-1, 1, 2}, n \in QuizCounts}
    \cup {[route |-> "quiz", user_id |-> "none", content_id |-> 1, num_questions |-> JNum(1)]}

Init ==
    /\ store \in {StoreWith(c) : c \in Contents}
    /\ request \in GraphRequests \cup QuizRequests
    /\ response = NoResponse
    /\ answer = NoAnswer
    /\ fallback = NoFallback
    /\ quiz = NoQuiz
    /\ content = NoContent
    /\ configured \in BOOLEAN
    /\ pc = "received"
    /\ outcome = "none"
    /\ hierarchy_data = JNull
    /\ graph = NoGraph
    /\ tier = "none"
    /\ raised = FALSE
    /\ calls = 0
    /\ derivations = NoDerivations

\* a lookup that takes no account of the owner
get_content_of_anyone(s, content_id, user_id) ==
    IF content_id \in DOMAIN s THEN s[content_id] ELSE NoContent

\* Database.get_content: find_one by _id and user_id; None when ObjectId
\* raises or no document matches (database.py 66-74)
get_content(s, content_id, user_id) ==
    IF content_id \in DOMAIN s /\ s[content_id].user_id = user_id
    THEN s[content_id]
    ELSE NoContent

\* the derivation variables while the endpoint is at work
DerivationIdle ==
    UNCHANGED <<configured, outcome, hierarchy_data, graph, tier, raised, calls, derivations, answer,
                fallback, quiz>>

\* @login_required: no user_id in the session (app.py 486-491)
LoginRequired ==
    /\ pc = "received" /\ request.route = "graph"
    /\ request.user_id = "none"
    /\ response' = [status |-> 302, body |-> "redirect"]
    /\ pc' = "responded"
    /\ UNCHANGED <<content, store, request>>
    /\ DerivationIdle

\* if not content: 404 (app.py 722-724)
ContentNotFound ==
    /\ pc = "received" /\ request.route = "graph"
    /\ request.user_id # "none"
    /\ get_content(store, request.content_id, request.user_id) = NoContent
    /\ response' = [status |-> 404, body |-> "error"]
    /\ pc' = "responded"
    /\ UNCHANGED <<content, store, request>>
    /\ DerivationIdle

\* a lookup that deletes what it found
ContentFoundAndDeleted ==
    /\ pc = "received" /\ request.route = "graph"
    /\ request.user_id # "none"
    /\ get_content(store, request.content_id, request.user_id) # NoContent
    /\ content' = get_content(store, request.content_id, request.user_id)
    /\ store' = [i \in DOMAIN store \ {request.content_id} |-> store[i]]
    /\ pc' = "request"
    /\ UNCHANGED <<request, response>>
    /\ DerivationIdle

\* content = db.get_content(content_id, session['user_id']) (app.py 722)
ContentFound ==
    /\ pc = "received" /\ request.route = "graph"
    /\ request.user_id # "none"
    /\ get_content(store, request.content_id, request.user_id) # NoContent
    /\ content' = get_content(store, request.content_id, request.user_id)
    /\ pc' = "request"
    /\ UNCHANGED <<store, request, response>>
    /\ DerivationIdle

\* return jsonify(graph_data) (app.py 727-728)
GraphReturned ==
    /\ pc = "done" /\ ~raised
    /\ response' = [status |-> 200, body |-> "graph"]
    /\ pc' = "responded"
    /\ UNCHANGED <<content, store, request>>
    /\ DerivationIdle

\* except Exception: 500 (app.py 729-730)
GraphFailed ==
    /\ pc = "done" /\ raised
    /\ response' = [status |-> 500, body |-> "error"]
    /\ pc' = "responded"
    /\ UNCHANGED <<content, store, request>>
    /\ DerivationIdle

\* @jwt_required(): a request without a valid token (app.py 1017)
QuizUnauthorized ==
    /\ pc = "received" /\ request.route = "quiz"
    /\ request.user_id = "none"
    /\ response' = [status |-> 401, body |-> "error"]
    /\ pc' = "responded"
    /\ UNCHANGED <<content, store, request>>
    /\ DerivationIdle

\* num_questions and (num_questions < 1 or num_questions > 50)
OutOfRange(num_questions) ==
    Truthy(num_questions) /\ (num_questions.v < 1 \/ num_questions.v > 50)

\* no content_id, or num_questions out of range: 400 (app.py 1028-1032)
QuizBadRequest ==
    /\ pc = "received" /\ request.route = "quiz"
    /\ request.user_id # "none"
    /\ request.content_id = -1 \/ OutOfRange(request.num_questions)
    /\ response' = [status |-> 400, body |-> "error"]
    /\ pc' = "responded"
    /\ UNCHANGED <<content, store, request>>
    /\ DerivationIdle

\* the checks passed (app.py 1028-1032)
QuizChecked ==
    /\ pc = "received" /\ request.route = "quiz"
    /\ request.user_id # "none"
    /\ request.content_id # -1 /\ ~OutOfRange(request.num_questions)

\* if not content: 404 (app.py 1035-1037)
QuizContentNotFound ==
    /\ QuizChecked
    /\ get_content(store, request.content_id, request.user_id) = NoContent
    /\ response' = [status |-> 404, body |-> "error"]
    /\ pc' = "responded"
    /\ UNCHANGED <<content, store, request>>
    /\ DerivationIdle

\* content = db.get_content(content_id, user_id) (app.py 1035)
QuizContentFound ==
    /\ QuizChecked
    /\ get_content(store, request.content_id, request.user_id) # NoContent
    /\ content' = get_content(store, request.content_id, request.user_id)
    /\ pc' = "quiz_text"
    /\ UNCHANGED <<store, request, response>>
    /\ DerivationIdle

\* the quiz endpoint between the lookup and the response
QuizStep(to, outcome_, result) ==
    /\ quiz' = [outcome |-> outcome_, result |-> result]
    /\ pc' = to
    /\ UNCHANGED <<content, configured, outcome, hierarchy_data, graph, tier, raised, calls,
                   derivations, store, request, response, answer, fallback>>

\* extract_text_from_content raises in the endpoint's try (app.py 1040)
QuizTextRaises ==
    /\ pc = "quiz_text"
    /\ ~extract_text_from_content(content.content).ok
    /\ QuizStep("quiz_return", "raised", JNull)

QuizTextExtracted == pc = "quiz_text" /\ extract_text_from_content(content.content).ok

\* the statements before generate_content raise nothing: content.split() is
\* called when num_questions is not given, and only a string has it
\* (ai_service.py 205-207)
PromptBuilt ==
    \/ Truthy(request.num_questions)
    \/ extract_text_from_content(content.content).val.t = "str"

\* if not self.model: return {"error": ...} (ai_service.py 200-201)
QuizNotConfigured ==
    /\ QuizTextExtracted /\ ~configured
    /\ QuizStep("quiz_return", "not_configured", Obj(<< <<"error", JLit("AI service not available")>> >>))

\* a statement of the try raises, generate_content or one before it:
\* return {"error": ...} (ai_service.py 269-271)
QuizBackendRaises ==
    /\ QuizTextExtracted /\ configured
    /\ QuizStep("quiz_return", "exception", Obj(<< <<"error", JLit("Failed to generate quiz")>> >>))

\* json.loads raises JSONDecodeError (ai_service.py 259-267)
QuizNotJson ==
    /\ QuizTextExtracted /\ configured
    /\ PromptBuilt
    /\ QuizStep("quiz_return", "unparseable",
                Obj(<< <<"quiz_title", JLit("Generated Quiz")>>, <<"total_questions", JNum(0)>>,
                       <<"questions", JList(<<>>)>>,
                       <<"error", JLit("Failed to parse quiz format")>>,
                       <<"raw_response", JLit("text")>> >>))

\* what json.loads gives for the cleaned quiz text
QuizAnswers ==
    {Obj(<< <<"quiz_title", JLit("Q")>>, <<"total_questions", JNum(k)>>,
            <<"questions", JList([i \in UpTo(k) |-> Obj(<< <<"id", JNum(i)>> >>)])>> >>) : k \in 0..2}
    \cup {EmptyDict, JList(<<>>), JNum(5), Obj(<< <<"questions", JNum(5)>> >>),
          Obj(<< <<"questions", JLit("ab")>> >>)}

\* return quiz_json (ai_service.py 256-258)
QuizParsed ==
    /\ QuizTextExtracted /\ configured
    /\ PromptBuilt
    /\ \E parsed \in QuizAnswers : QuizStep("quiz_return", "parsed", parsed)

\* quiz['questions'] and len of it raise nothing (app.py 1045-1051)
BodyBuilt(result) ==
    /\ IsDict(result)
    /\ Has(result, "questions")
    /\ Sized(result.v["questions"])

QuizResponds(status, body) ==
    /\ pc = "quiz_return"
    /\ response' = [status |-> status, body |-> body]
    /\ pc' = "responded"
    /\ UNCHANGED <<content, store, request>>
    /\ DerivationIdle

\* return jsonify({... 'quiz': quiz ...}), 200 (app.py 1045-1051)
QuizReturned ==
    /\ quiz.outcome # "raised" /\ BodyBuilt(quiz.result)
    /\ QuizResponds(200, "quiz")

\* except Exception: 500 (app.py 1053-1054)
QuizFailed ==
    /\ quiz.outcome = "raised" \/ ~BodyBuilt(quiz.result)
    /\ QuizResponds(500, "error")

\* a call followed by a second one
CallBackendTwice == calls' = calls + 2

\* response = self.model.generate_content(prompt) (ai_service.py 471): the
\* one statement that reaches the backend, in no loop
CallBackend == calls' = calls + 1

\* a failure path that hands on no hierarchy at all
SkipFallback(kind) ==
    /\ hierarchy_data' = JNull
    /\ outcome' = kind
    /\ pc' = "assemble"
    /\ UNCHANGED <<content, configured, graph, tier, raised, rest>>

\* every way generate_hierarchical_graph_structure ends in the fallback builder
UseFallback(kind) ==
    /\ hierarchy_data' = create_enhanced_fallback_hierarchy(JStr(TextOf(content.content)))
    /\ outcome' = kind
    /\ pc' = "assemble"
    /\ UNCHANGED <<content, configured, graph, tier, raised, rest>>

\* if not self.model (ai_service.py 412-414)
NotConfigured ==
    /\ pc = "request" /\ ~configured
    /\ UseFallback("not_configured")
    /\ UNCHANGED <<calls, answer>>

\* generate_content raises (ai_service.py 471, 487-489)
BackendRaises ==
    /\ pc = "request" /\ configured
    /\ UseFallback("exception")
    /\ CallBackend
    /\ UNCHANGED answer

\* json.loads raises JSONDecodeError (ai_service.py 475, 483-485)
ResponseNotJson ==
    /\ pc = "request" /\ configured
    /\ UseFallback("unparseable")
    /\ CallBackend
    /\ UNCHANGED answer

\* hierarchy_data.get of a parsed value that is no dict (ai_service.py 478, 487-489)
ResponseNotDict ==
    /\ pc = "request" /\ configured
    /\ \E parsed \in Answers : ~IsDict(parsed) /\ answer' = parsed
    /\ UseFallback("not_dict")
    /\ CallBackend

\* a gate that also wants relationships
RejectedWithoutRelationships(parsed) ==
    ~Truthy(Get(parsed, "hierarchy_levels", JNull)) \/ ~Has(parsed, "relationships")

\* if not hierarchy_data.get('hierarchy_levels')
Rejected(parsed) == ~Truthy(Get(parsed, "hierarchy_levels", JNull))

ResponseRejected ==
    /\ pc = "request" /\ configured
    /\ \E parsed \in Answers : IsDict(parsed) /\ Rejected(parsed) /\ answer' = parsed
    /\ UseFallback("empty_levels")
    /\ CallBackend

ResponseAccepted ==
    /\ pc = "request" /\ configured
    /\ \E parsed \in Answers :
          /\ IsDict(parsed) /\ ~Rejected(parsed)
          /\ answer' = parsed
          /\ hierarchy_data' = parsed
    /\ outcome' = "accepted"
    /\ pc' = "assemble"
    /\ CallBackend
    /\ UNCHANGED <<content, configured, graph, tier, raised, rest>>

\* the function returns the graph of a tier
Returned(result, by) == result.ok /\ graph' = result.graph /\ tier' = by
ReturnedLegacy(result) == Returned(result, result.tier)

\* a derivation that assembles the hierarchy whatever its keys
ErrorKeyIgnored ==
    /\ pc = "assemble"
    /\ Has(hierarchy_data, "error")
    /\ Returned(Assemble(hierarchy_data, content), "assembler")
    /\ pc' = "done"
    /\ UNCHANGED <<content, configured, outcome, hierarchy_data, raised, calls, answer, rest>>

\* if 'error' in hierarchy_data: return generate_legacy_graph_data(content)
ErrorKey ==
    /\ pc = "assemble"
    /\ Has(hierarchy_data, "error")
    /\ pc' = "legacy_try"
    /\ UNCHANGED <<content, configured, outcome, hierarchy_data, graph, tier, raised, calls, answer, rest>>

AssembleReturns ==
    /\ pc = "assemble"
    /\ ~Has(hierarchy_data, "error")
    /\ Returned(Assemble(hierarchy_data, content), "assembler")
    /\ pc' = "done"
    /\ UNCHANGED <<content, configured, outcome, hierarchy_data, raised, calls, answer, rest>>

\* except Exception (app.py 262-265)
AssembleRaises ==
    /\ pc = "assemble"
    /\ ~Has(hierarchy_data, "error")
    /\ ~Assemble(hierarchy_data, content).ok
    /\ pc' = "legacy_except"
    /\ UNCHANGED <<content, configured, outcome, hierarchy_data, graph, tier, raised, calls, answer, rest>>

LegacyReturns ==
    /\ pc \in {"legacy_try", "legacy_except"}
    /\ ReturnedLegacy(generate_legacy_graph_data(content))
    /\ pc' = "done"
    /\ UNCHANGED <<content, configured, outcome, hierarchy_data, raised, calls, answer, rest>>

\* the call of app.py 106 is inside the try: its exception is caught at 262
LegacyRaisesInTry ==
    /\ pc = "legacy_try"
    /\ ~generate_legacy_graph_data(content).ok
    /\ pc' = "legacy_except"
    /\ UNCHANGED <<content, configured, outcome, hierarchy_data, graph, tier, raised, calls, answer, rest>>

\* the call of app.py 265 is in the handler: its exception leaves generate_graph_data
LegacyRaisesInExcept ==
    /\ pc = "legacy_except"
    /\ ~generate_legacy_graph_data(content).ok
    /\ raised' = TRUE
    /\ pc' = "done"
    /\ UNCHANGED <<content, configured, outcome, hierarchy_data, graph, tier, calls, answer, rest>>

Next ==
    \/ QuizUnauthorized
    \/ QuizBadRequest
    \/ QuizContentNotFound
    \/ QuizContentFound
    \/ QuizTextRaises
    \/ QuizNotConfigured
    \/ QuizBackendRaises
    \/ QuizNotJson
    \/ QuizParsed
    \/ QuizReturned
    \/ QuizFailed
    \/ LoginRequired
    \/ ContentNotFound
    \/ ContentFound
    \/ GraphReturned
    \/ GraphFailed
    \/ NotConfigured
    \/ BackendRaises
    \/ ResponseNotJson
    \/ ResponseNotDict
    \/ ResponseRejected
    \/ ResponseAccepted
    \/ ErrorKey
    \/ AssembleReturns
    \/ AssembleRaises
    \/ LegacyReturns
    \/ LegacyRaisesInTry
    \/ LegacyRaisesInExcept

Spec == Init /\ [][Next]_vars

(***************************************************************************)
(* Derivations side by side: the assembler of each request, one loop       *)
(* iteration at a time                                                     *)
(***************************************************************************)
\* the record the requests read
SharedContent == [title |-> JLit("T"), content |-> PlainText(TextABC)]

ConcurrentHierarchies ==
    {Obj(<< <<"hierarchy_levels", JList(<<HLevel(1, HNodes(1, MaxNodes))>>)>>,
            <<"relationships", JList(<<HRel("a", "b", "strong")>>)>> >>),
     Obj(<< <<"hierarchy_levels", JList(<<HLevel(1, HNodes(1, 1)), HLevel(2, HNodes(2, 1))>>)>>,
            <<"relationships", JList(<<HRel("main", "b", "weak")>>)>> >>),
     Obj(<< <<"hierarchy_levels", JList(<<EmptyDict>>)>> >>),
     Obj(<< <<"hierarchy_levels", JList(<<HLevel(1, HNodes(1, 1) \o <<JNum(5)>>)>>)>> >>),
     Obj(<< <<"hierarchy_levels", JList(<<HLevel(1, HNodes(1, 1))>>)>>,
            <<"relationships", JNum(5)>> >>),
     Obj(<< <<"hierarchy_levels", JList(<<HLevel(1, HNodes(1, 1))>>)>>,
            <<"main_topic", JLit("Photosynthesis")>> >>)}

InitConcurrent ==
    /\ derivations \in [Derivations -> {Idle(h) : h \in ConcurrentHierarchies}]
    /\ content = SharedContent
    /\ configured = TRUE
    /\ pc = "off"
    /\ outcome = "none"
    /\ hierarchy_data = JNull
    /\ graph = NoGraph
    /\ tier = "none"
    /\ raised = FALSE
    /\ calls = 0
    /\ store = StoreWith(SharedContent)
    /\ request = [route |-> "none", user_id |-> "none", content_id |-> 0, num_questions |-> JNull]
    /\ response = NoResponse
    /\ answer = NoAnswer
    /\ fallback = NoFallback
    /\ quiz = NoQuiz

Running(d) == derivations[d].pc \in {"levels", "relationships"}

\* derivation d goes on with the locals "next"; it is marked once it has
\* taken a step while another derivation was under way
Move(d, next) ==
    /\ derivations' =
          [derivations EXCEPT
              ![d] = [next EXCEPT !.overlapped = @ \/ \E e \in Derivations \ {d} : Running(e)]]
    /\ UNCHANGED <<content, configured, pc, outcome, hierarchy_data, graph, tier, raised, calls,
                   store, request, response, answer, fallback, quiz>>

Raise(d) == Move(d, [derivations[d] EXCEPT !.pc = "raised"])

\* one counter for all the derivations
shared_counter(ds, d) == ds[1].acc.counter + ds[2].acc.counter

\* node_counter is a local of the call (app.py 113)
node_counter(ds, d) == ds[d].acc.counter

\* app.py 110-139
Begin(d) ==
    /\ derivations[d].pc = "idle"
    /\ IF \/ ~IsDict(Get(derivations[d].hierarchy_data, "main_topic", EmptyDict))
          \/ ~Iterable(Get(derivations[d].hierarchy_data, "hierarchy_levels", JList(<<>>)))
       THEN Raise(d)
       ELSE Move(d, [derivations[d] EXCEPT
                !.pc = "levels",
                !.levels = Items(Get(derivations[d].hierarchy_data, "hierarchy_levels", JList(<<>>))),
                !.acc = FirstAcc(Get(derivations[d].hierarchy_data, "main_topic", EmptyDict), content)])

\* for level_data in ...: level_num, level_data.get('nodes', []) (app.py 141-146)
NextLevel(d) ==
    /\ derivations[d].pc = "levels"
    /\ derivations[d].nodes_left = <<>>
    /\ derivations[d].levels # <<>>
    /\ IF \/ ~IsDict(Head(derivations[d].levels))
          \/ ~Iterable(Get(Head(derivations[d].levels), "nodes", JList(<<>>)))
       THEN Raise(d)
       ELSE Move(d, [derivations[d] EXCEPT
                !.levels = Tail(@),
                !.level_num = Get(Head(derivations[d].levels), "level", JNum(1)),
                !.nodes_left = Items(Get(Head(derivations[d].levels), "nodes", JList(<<>>)))])

\* one pass of the inner loop body (app.py 147-192)
NodeAdded(d, acc) ==
    IF acc.ok
    THEN Move(d, [derivations[d] EXCEPT !.acc = acc, !.nodes_left = Tail(@)])
    ELSE Raise(d)

NextNode(d) ==
    /\ derivations[d].pc = "levels"
    /\ derivations[d].nodes_left # <<>>
    /\ NodeAdded(d, AssembleLevel(<<Head(derivations[d].nodes_left)>>, derivations[d].level_num,
                    [derivations[d].acc EXCEPT !.counter = node_counter(derivations, d)]))

\* for relationship in hierarchy_data.get('relationships', []) (app.py 195)
BeginRelationships(d) ==
    /\ derivations[d].pc = "levels"
    /\ derivations[d].nodes_left = <<>>
    /\ derivations[d].levels = <<>>
    /\ IF ~Iterable(Get(derivations[d].hierarchy_data, "relationships", JList(<<>>)))
       THEN Raise(d)
       ELSE Move(d, [derivations[d] EXCEPT
                !.pc = "relationships",
                !.rels = Items(Get(derivations[d].hierarchy_data, "relationships", JList(<<>>)))])

\* one pass of the relationship loop body (app.py 196-212)
RelationshipDone(d, acc) ==
    IF acc.ok
    THEN Move(d, [derivations[d] EXCEPT !.acc = acc, !.rels = Tail(@)])
    ELSE Raise(d)

NextRelationship(d) ==
    /\ derivations[d].pc = "relationships"
    /\ derivations[d].rels # <<>>
    /\ RelationshipDone(d, AssembleRelationships(<<Head(derivations[d].rels)>>, derivations[d].acc))

\* app.py 214-260
Return(d) ==
    /\ derivations[d].pc = "relationships"
    /\ derivations[d].rels = <<>>
    /\ Move(d, [derivations[d] EXCEPT
            !.pc = "done",
            !.graph = AssembledGraph(derivations[d].hierarchy_data,
                                     EnsureBasicStructure(derivations[d].acc))])

NextConcurrent ==
    \/ \E d \in Derivations : Begin(d)
    \/ \E d \in Derivations : NextLevel(d)
    \/ \E d \in Derivations : NextNode(d)
    \/ \E d \in Derivations : BeginRelationships(d)
    \/ \E d \in Derivations : NextRelationship(d)
    \/ \E d \in Derivations : Return(d)

SpecConcurrent == InitConcurrent /\ [][NextConcurrent]_vars

(***************************************************************************)
(* The fallback builder alone, on every kind of input                      *)
(***************************************************************************)
\* texts, structured documents well formed and not, and values of other types
FallbackInputs == {JStr(TextOf(c.content)) : c \in Contents} \cup Docs

InitFallback ==
    /\ fallback \in {[pc |-> "called", content |-> c, result |-> JNull] : c \in FallbackInputs}
    /\ content = NoContent
    /\ configured = FALSE
    /\ pc = "off"
    /\ outcome = "none"
    /\ hierarchy_data = JNull
    /\ graph = NoGraph
    /\ tier = "none"
    /\ raised = FALSE
    /\ calls = 0
    /\ derivations = NoDerivations
    /\ store = StoreWith(SharedContent)
    /\ request = [route |-> "none", user_id |-> "none", content_id |-> 0, num_questions |-> JNull]
    /\ response = NoResponse
    /\ answer = NoAnswer
    /\ quiz = NoQuiz

FallbackStep(to) ==
    /\ fallback' = [fallback EXCEPT !.pc = to,
                      !.result = IF to = "returned"
                                 THEN create_enhanced_fallback_hierarchy(fallback.content)
                                 ELSE @]
    /\ UNCHANGED <<content, configured, pc, outcome, hierarchy_data, graph, tier, raised, calls,
                   derivations, store, request, response, answer, quiz>>

\* text_content is there (ai_service.py 494-498)
TextExtracted ==
    /\ fallback.pc = "called"
    /\ FallbackText(fallback.content).ok
    /\ FallbackStep("try")
\* a statement of the try block raises (ai_service.py 579)
TextRaises ==
    /\ fallback.pc = "called"
    /\ ~FallbackText(fallback.content).ok
    /\ FallbackStep("except")
\* return of the try block (ai_service.py 558-577)
ReturnEnhanced ==
    /\ fallback.pc = "try"
    /\ FallbackStep("returned")
\* return of the handler (ai_service.py 581-608)
ReturnMinimal ==
    /\ fallback.pc = "except"
    /\ FallbackStep("returned")

NextFallback == TextExtracted \/ TextRaises \/ ReturnEnhanced \/ ReturnMinimal
SpecFallback == InitFallback /\ [][NextFallback]_vars

(***************************************************************************)
(* Properties of the derivation                                            *)
(***************************************************************************)
\* generate_graph_data has returned a graph to its caller
ReturnedGraph == pc = "done" /\ ~raised
ByAssembler == ReturnedGraph /\ tier = "assembler"
NodeIds(g) == {g.nodes[i].id : i \in DOMAIN g.nodes}
FailureKinds == {"not_configured", "exception", "unparseable", "not_dict", "empty_levels"}

\* C1: for every text content and every outcome of the backend, the
\* derivation returns a graph with at least one node, the first of id "0".
C1_ReturnsRootedGraph ==
    pc = "done" => /\ ~raised
                   /\ Len(graph.nodes) >= 1
                   /\ graph.nodes[1].id = "0"

\* C2: in every returned graph, on every tier, the source and the target of
\* every link are ids of nodes of that graph.
C2_LinkEndsAreNodes ==
    ReturnedGraph =>
        \A i \in DOMAIN graph.links :
            /\ graph.links[i].source \in NodeIds(graph)
            /\ graph.links[i].target \in NodeIds(graph)

\* an assembled graph with a link between two hierarchy nodes, from a
\* hierarchy that also lists a relationship to a node that does not exist
C2_Witness ==
    /\ ByAssembler
    /\ \E i \in DOMAIN graph.links : graph.links[i].source # "0"
    /\ Get(hierarchy_data, "relationships", JNull)
         = JList(<<HRel("a", "ghost", "weak"), HRel("b", "a", "odd")>>)

\* C3: in every returned graph exactly one node has id "0", and it has level
\* 0, whatever ids and levels the hierarchy nodes carry.
C3_OneRootAtLevelZero ==
    ReturnedGraph =>
        /\ Cardinality({i \in DOMAIN graph.nodes : graph.nodes[i].id = "0"}) = 1
        /\ \A i \in DOMAIN graph.nodes :
              graph.nodes[i].id = "0" => graph.nodes[i].level = JNum(0)

\* an assembled graph whose hierarchy put a node of its own at level 0
C3_Witness ==
    /\ ByAssembler
    /\ \E i \in DOMAIN graph.nodes : i > 1 /\ graph.nodes[i].level = JNum(0)

\* C4 as stated: with the backend not configured the graph has at least 3
\* nodes, for every text content.
C4_UnconfiguredAtLeastThree ==
    (pc = "done" /\ outcome = "not_configured") =>
        (~raised /\ Len(graph.nodes) >= 3)

\* C4: with the backend not configured the graph has at least 2 nodes, for
\* every text content: the root and one node or more of the fallback
\* hierarchy, or the root and the two synthetic nodes.
C4_UnconfiguredAtLeastTwo ==
    (pc = "done" /\ outcome = "not_configured") =>
        (~raised /\ tier = "assembler" /\ Len(graph.nodes) >= 2)

\* the backend is not configured and the graph has the root and one node
C4_Witness ==
    /\ pc = "done" /\ outcome = "not_configured"
    /\ Len(graph.nodes) = 2

\* the nodes of all hierarchy levels, in the order the assembler meets them
RECURSIVE NodesOfLevels(_)
NodesOfLevels(levels) ==
    IF levels = <<>> THEN <<>>
    ELSE (IF IsDict(Head(levels)) /\ Iterable(Get(Head(levels), "nodes", JList(<<>>)))
          THEN Items(Get(Head(levels), "nodes", JList(<<>>)))
          ELSE <<>>)
         \o NodesOfLevels(Tail(levels))
HierarchyNodes(h) ==
    IF IsDict(h) /\ Iterable(Get(h, "hierarchy_levels", JList(<<>>)))
    THEN NodesOfLevels(Items(Get(h, "hierarchy_levels", JList(<<>>))))
    ELSE <<>>

\* C5 as stated: every graph of the assembler has at least 3 nodes and at
\* least 3 links, however degenerate the hierarchy.
C5_AssemblerAtLeastThree ==
    ByAssembler => (Len(graph.nodes) >= 3 /\ Len(graph.links) >= 3)

\* C5: every graph of the assembler has at least 2 nodes; it has exactly 3
\* nodes and 3 links when the hierarchy levels contribute no node, and
\* otherwise the root and one node per hierarchy node, with no promise of
\* any link.
C5_AssemblerAtLeastTwo ==
    ByAssembler =>
        /\ Len(graph.nodes) >= 2
        /\ HierarchyNodes(hierarchy_data) = <<>>
             => (Len(graph.nodes) = 3 /\ Len(graph.links) = 3)
        /\ HierarchyNodes(hierarchy_data) # <<>>
             => Len(graph.nodes) = 1 + Len(HierarchyNodes(hierarchy_data))

\* a hierarchy of a single node outside level 1: two nodes and no link
C5_Witness ==
    /\ ByAssembler
    /\ Len(HierarchyNodes(hierarchy_data)) = 1
    /\ Len(graph.nodes) = 2
    /\ Len(graph.links) = 0

\* the backend answered "A. B. C." with empty hierarchy_levels
EmptyAnswerForABC ==
    /\ pc = "done"
    /\ outcome = "empty_levels"
    /\ content.content = PlainText(TextABC)

\* C6 as stated: for the text "A. B. C." and an answer with empty
\* hierarchy_levels the fallback builder gives one node and the graph has
\* exactly 3 nodes and exactly 3 links.
C6_ThreeNodesThreeLinks ==
    EmptyAnswerForABC =>
        /\ ByAssembler
        /\ Len(HierarchyNodes(hierarchy_data)) = 1
        /\ Len(graph.nodes) = 3
        /\ Len(graph.links) = 3

\* C6: for the text "A. B. C." and an answer with empty hierarchy_levels
\* the answer is rejected, the fallback builder gives one level-1 node from
\* the single paragraph, and the graph has exactly 2 nodes (the root and
\* that node) and exactly 1 link (root to node): no synthetic node is added.
C6_TwoNodesOneLink ==
    EmptyAnswerForABC =>
        /\ ByAssembler
        /\ hierarchy_data = create_enhanced_fallback_hierarchy(JStr(TextOf(content.content)))
        /\ Len(HierarchyNodes(hierarchy_data)) = 1
        /\ Len(graph.nodes) = 2
        /\ Len(graph.links) = 1
        /\ graph.links[1].source = "0" /\ graph.links[1].target = "1"

C6_Witness ==
    /\ EmptyAnswerForABC
    /\ Len(graph.nodes) = 2
    /\ graph.nodes[2].name = JStr(TextABC)

\* the ids the hierarchy nodes carry
HierarchyNodeIds(h) ==
    {HierarchyNodes(h)[k].v["id"] :
        k \in {i \in DOMAIN HierarchyNodes(h) :
                 IsDict(HierarchyNodes(h)[i]) /\ Has(HierarchyNodes(h)[i], "id")}}
\* the lower-cased titles of the nodes without id; the k-th node is numbered k
HierarchyNodeTitles(h) ==
    {LoweredTitle(HierarchyNodes(h)[k], k) :
        k \in {i \in DOMAIN HierarchyNodes(h) :
                 /\ IsDict(HierarchyNodes(h)[i])
                 /\ ~Has(HierarchyNodes(h)[i], "id")
                 /\ Get(HierarchyNodes(h)[i], "title", JLit("Node")).t = "str"}}
\* the names a relationship end resolves by
ResolvableEnds(h) == {JLit("main")} \cup HierarchyNodeIds(h) \cup HierarchyNodeTitles(h)

\* a relationship with an end outside the set "known"
Dangling(relationship, known) ==
    /\ IsDict(relationship)
    /\ Hashable(Get(relationship, "source", JLit("")))
    /\ Hashable(Get(relationship, "target", JLit("")))
    /\ \/ Get(relationship, "source", JLit("")) \notin known
       \/ Get(relationship, "target", JLit("")) \notin known
HasDangling(h, known) ==
    /\ IsDict(h)
    /\ Get(h, "relationships", JNull).t = "list"
    /\ \E i \in DOMAIN h.v["relationships"].v : Dangling(h.v["relationships"].v[i], known)
\* the hierarchy without its dangling relationships
WithoutDangling(h, known) ==
    IF HasDangling(h, known)
    THEN [h EXCEPT !.v["relationships"].v = SelectSeq(@, LAMBDA r : ~Dangling(r, known))]
    ELSE h

\* assembling h and assembling h without its dangling relationships end alike
DanglingDropped(known) ==
    /\ ByAssembler
         => graph = Assemble(WithoutDangling(hierarchy_data, known), content).graph
    /\ (pc = "legacy_except" /\ ~Has(hierarchy_data, "error"))
         => ~Assemble(WithoutDangling(hierarchy_data, known), content).ok

\* C7 as stated: a relationship with an end that is not the id of any
\* hierarchy node raises nothing and gives no link; the links reflect only
\* the relationships whose two ends are hierarchy-node ids.
C7_OnlyNodeIdsResolve == DanglingDropped(HierarchyNodeIds(hierarchy_data))

\* C7: a relationship with an end that is neither the literal 'main', nor
\* the id of a hierarchy node, nor the lower-cased title of a hierarchy node
\* without id, raises nothing and gives no link: the graph, and whether
\* assembly raises, are those of the hierarchy without that relationship.
C7_DanglingRelationshipDropped == DanglingDropped(ResolvableEnds(hierarchy_data))

\* an assembled graph from a hierarchy with a dangling relationship and a
\* resolvable one, which gave a link
C7_Witness ==
    /\ ByAssembler
    /\ HasDangling(hierarchy_data, ResolvableEnds(hierarchy_data))
    /\ \E i \in DOMAIN graph.links : graph.links[i].type = JLit("causes")

\* C8: no graph of the assembler has a link whose source equals its target.
C8_NoSelfLoop ==
    ByAssembler => \A i \in DOMAIN graph.links : graph.links[i].source # graph.links[i].target

\* an assembled graph from a hierarchy with a relationship from a node to itself
C8_Witness ==
    /\ ByAssembler
    /\ Get(hierarchy_data, "relationships", JNull) = JList(<<HRel("a", "a", "strong")>>)
    /\ JLit("a") \in HierarchyNodeIds(hierarchy_data)

\* C9: after each kind of backend failure the hierarchy is the fallback
\* hierarchy of the content, it goes to the assembler and to no other tier,
\* and the caller receives the assembler's graph, never an error.
C9_FailureFallsBackToAssembler ==
    outcome \in FailureKinds =>
        /\ hierarchy_data = create_enhanced_fallback_hierarchy(JStr(TextOf(content.content)))
        /\ pc \in {"assemble", "done", "responded"}
        /\ pc = "done" => ByAssembler /\ Len(graph.nodes) >= 1
        /\ pc = "responded" => response = [status |-> 200, body |-> "graph"]

\* the answer was not parseable, the content is a structured document, and
\* the caller has its graph
C9_Witness ==
    /\ pc = "done"
    /\ outcome = "unparseable"
    /\ content.content.kind = "json"
    /\ ByAssembler

\* assembly raised on the hierarchy it was given
AssemblyRaised ==
    /\ outcome # "none"
    /\ ~Has(hierarchy_data, "error")
    /\ ~Assemble(hierarchy_data, content).ok

\* C10: when assembly raises, the derivation returns the graph of the legacy
\* builder or of the simple text builder, and no exception reaches the caller.
C10_AssemblyFailureContained ==
    (pc = "done" /\ AssemblyRaised) => (~raised /\ tier \in {"legacy", "simple"})

\* C11: one derivation calls the backend at most once, with no second call
\* after a failed or malformed answer, and not at all when the client is not
\* configured.
C11_AtMostOneBackendCall ==
    /\ calls <= 1
    /\ ~configured => calls = 0
    /\ outcome = "none" => calls = 0
    /\ (configured /\ outcome # "none") => calls = 1

\* the answer could not be parsed, the derivation is over, and one call was made
C11_Witness ==
    /\ pc = "done"
    /\ outcome = "unparseable"
    /\ calls = 1

\* C12: however the derivations interleave, each numbers its nodes from 0
\* with its own counter and returns the graph it returns when run alone, and
\* one that raises is one that raises when run alone.
C12_DerivationsIndependent ==
    \A d \in Derivations :
        /\ derivations[d].pc = "done" =>
              /\ Assemble(derivations[d].hierarchy_data, content).ok
              /\ derivations[d].graph = Assemble(derivations[d].hierarchy_data, content).graph
              /\ \A i \in DOMAIN derivations[d].graph.nodes :
                    derivations[d].graph.nodes[i].id = ToString(i - 1)
        /\ derivations[d].pc = "raised" =>
              ~Assemble(derivations[d].hierarchy_data, content).ok

\* both derivations have returned a graph with hierarchy nodes, and each took
\* steps while the other was under way
C12_Witness ==
    \A d \in Derivations :
        /\ derivations[d].pc = "done"
        /\ derivations[d].overlapped
        /\ Len(derivations[d].graph.nodes) >= 3

\* the requesting user owns a document with the requested id
OwnerRequests ==
    /\ request.content_id \in DOMAIN store
    /\ store[request.content_id].user_id = request.user_id

\* C13: a graph request only reads: no step of it inserts, updates or deletes
\* a stored content record, on any tier and after any backend outcome, and
\* the record handed to the derivation stays the stored one, unchanged.
C13_StoreOnlyRead ==
    [][/\ store' = store
       /\ content # NoContent => content' = content
       /\ content' # NoContent => content' = store'[request'.content_id]]_vars

\* a request was answered with the simple builder's graph after the backend's
\* answer was accepted, and the record is still the stored one
C13_Witness ==
    /\ pc = "responded"
    /\ response.status = 200
    /\ tier = "simple"
    /\ outcome = "accepted"
    /\ content = store[request.content_id]

\* C14: a graph is returned only for a content record the requesting session
\* user owns; when the lookup by id and user finds nothing (no such id, or
\* another user's record) the answer is 404 with an error body, and no
\* derivation is started and no backend call is made.
C14_GraphOnlyForOwner ==
    /\ response.status = 200 => OwnerRequests /\ content = store[request.content_id]
    /\ (request.route = "graph" /\ request.user_id # "none" /\ ~OwnerRequests) =>
          /\ pc \in {"received", "responded"}
          /\ pc = "responded" => response = [status |-> 404, body |-> "error"]
          /\ content = NoContent
          /\ outcome = "none" /\ tier = "none" /\ graph = NoGraph
          /\ calls = 0

\* a user asked for another user's record and was answered 404
C14_Witness ==
    /\ pc = "responded"
    /\ request.user_id = "u1"
    /\ request.content_id = 2
    /\ response.status = 404

\* the size of the spec's importance table
SizeOf(importance) ==
    IF importance = JLit("high") THEN 35
    ELSE IF importance = JLit("low") THEN 22
    ELSE 28
\* the value of the spec's strength table
ValueOf(strength) ==
    IF strength = JLit("strong") THEN 3
    ELSE IF strength = JLit("weak") THEN 1
    ELSE 2
\* the links of g that come from relationships
RelationshipLinks(g) == SelectSeq(g.links, LAMBDA l : "description" \in DOMAIN l)
\* the relationships of h that give a link, with ends resolved by map
LinkedRelationships(h, map) ==
    SelectSeq(Items(Get(h, "relationships", JList(<<>>))),
              LAMBDA r : LinkAdded(Resolve(map, Get(r, "source", JLit(""))),
                                   Resolve(map, Get(r, "target", JLit("")))))
ByAssemblerFrom(h) == ByAssembler /\ hierarchy_data = h

\* C15: the titled hierarchy with nodes a (high) and b (low) and the strong
\* relationship a -> b gives the root named by the title, sizes 35 and 22,
\* a hierarchy link of value 3 from "0" to "1" and to "2", and one link
\* "1" -> "2" of value 3 typed by the relationship_type; in general a
\* hierarchy node's size follows {high 35, medium 28, low 22, other 28} and a
\* relationship link's value follows {strong 3, medium 2, weak 1, other 2}.
C15_SizesAndValues ==
    /\ ByAssemblerFrom(TitledHierarchy) =>
          /\ Len(graph.nodes) = 3
          /\ graph.nodes[1].name = JLit("Photosynthesis")
          /\ graph.nodes[2].size = 35 /\ graph.nodes[3].size = 22
          /\ Len(graph.links) = 3
          /\ \A i \in 1..2 :
                /\ graph.links[i].source = "0" /\ graph.links[i].target = ToString(i)
                /\ graph.links[i].value = 3 /\ graph.links[i].type = JLit("hierarchy")
          /\ graph.links[3].source = "1" /\ graph.links[3].target = "2"
          /\ graph.links[3].value = 3 /\ graph.links[3].type = JLit("causes")
    /\ ByAssembler =>
          /\ \A i \in DOMAIN graph.nodes :
                "importance" \in DOMAIN graph.nodes[i] =>
                    graph.nodes[i].size = SizeOf(graph.nodes[i].importance)
          /\ LET map == AssembleLevels(Items(Get(hierarchy_data, "hierarchy_levels", JList(<<>>))),
                                       FirstAcc(Get(hierarchy_data, "main_topic", EmptyDict), content)).map
                 linked == LinkedRelationships(hierarchy_data, map)
             IN /\ Len(RelationshipLinks(graph)) = Len(linked)
                /\ \A i \in DOMAIN linked :
                      RelationshipLinks(graph)[i].value
                          = ValueOf(Get(linked[i], "strength", JLit("medium")))

\* the titled hierarchy was assembled
C15_Witness == ByAssemblerFrom(TitledHierarchy) /\ Len(graph.links) = 3

\* the hierarchy in hand is the fallback builder's
FromFallback == outcome \in FailureKinds /\ pc \in {"assemble", "done", "responded"}
\* the level-1 nodes of the fallback hierarchy in hand
FallbackLevel1Nodes ==
    IF hierarchy_data.v["hierarchy_levels"].v = <<>> THEN <<>>
    ELSE hierarchy_data.v["hierarchy_levels"].v[1].v["nodes"].v
\* the title t is the source d, cut after 60 characters and marked when longer
TitleOfSource(t, d) ==
    /\ Len(d) > 60 => t = SubSeq(d, 1, 60) \o Chars(Rep(".", 3))
    /\ Len(d) <= 60 => t = d
    /\ Len(t) <= 63

\* C16: a level-1 fallback node built from a source longer than 60 characters
\* is named by the first 60 characters followed by "..." (at most 63
\* characters), a source of 60 characters or fewer is the name unchanged, and
\* in both cases the node's content is the full source text.
C16_Level1Names ==
    FromFallback =>
        LET main == MainConcepts(TextOf(content.content)) IN
        /\ Len(FallbackLevel1Nodes) = Len(main)
        /\ \A i \in DOMAIN main :
              /\ FallbackLevel1Nodes[i].v["description"] = JStr(main[i])
              /\ TitleOfSource(Chars(FallbackLevel1Nodes[i].v["title"].v), Chars(main[i]))
              /\ ByAssembler =>
                    /\ graph.nodes[i + 1].name = FallbackLevel1Nodes[i].v["title"]
                    /\ graph.nodes[i + 1].content = JStr(main[i])

\* a fallback graph whose first node has a cut name, and one whose first
\* node is named by a source of exactly 60 characters
C16_Witness ==
    /\ ByAssembler /\ FromFallback
    /\ Len(graph.nodes) >= 2
    /\ StrLen(graph.nodes[2].content.v) > 60
    /\ StrLen(graph.nodes[2].name.v) = 63

\* the same with a source of exactly 60 characters
C16_WitnessAtLimit ==
    /\ ByAssembler /\ FromFallback
    /\ Len(graph.nodes) >= 2
    /\ StrLen(graph.nodes[2].content.v) = 60
    /\ graph.nodes[2].name = graph.nodes[2].content

\* the parsed answer has no hierarchy_levels, or one that holds nothing:
\* null, zero, or an empty string, list or dict
AbsentOrEmpty(parsed) ==
    \/ ~IsDict(parsed)
    \/ /\ IsDict(parsed)
       /\ \/ "hierarchy_levels" \notin DOMAIN parsed.v
          \/ /\ "hierarchy_levels" \in DOMAIN parsed.v
             /\ parsed.v["hierarchy_levels"] \in {JNull, JNum(0), JLit(""), JList(<<>>), EmptyDict}
\* the fallback hierarchy took the place of a parsed answer
FallbackForAnswer == outcome \in {"empty_levels", "not_dict"}

\* C17: a parsed answer is rejected, and the fallback hierarchy used in its
\* place, exactly when hierarchy_levels is absent or empty; an answer with
\* non-empty hierarchy_levels is accepted whether or not it has
\* relationships, learning_path or main_topic, and is assembled as it is.
C17_RejectedIffNoLevels ==
    answer # NoAnswer =>
        /\ FallbackForAnswer <=> AbsentOrEmpty(answer)
        /\ FallbackForAnswer =>
              hierarchy_data = create_enhanced_fallback_hierarchy(JStr(TextOf(content.content)))
        /\ ~AbsentOrEmpty(answer) =>
              /\ outcome = "accepted"
              /\ hierarchy_data = answer
              /\ (pc = "done" /\ ~Has(answer, "error") /\ Assemble(answer, content).ok) =>
                    /\ tier = "assembler"
                    /\ graph = Assemble(answer, content).graph

\* an answer of hierarchy_levels alone was accepted and assembled
C17_Witness ==
    /\ pc = "done" /\ tier = "assembler"
    /\ outcome = "accepted"
    /\ DOMAIN answer.v = {"hierarchy_levels"}
    /\ Len(graph.nodes) >= 3

\* an answer with relationships and main_topic but no hierarchy_levels was rejected
C17_WitnessRejected ==
    /\ pc = "done"
    /\ outcome = "empty_levels"
    /\ IsDict(answer)
    /\ DOMAIN answer.v = {"relationships", "main_topic"}

\* the nodes of the first level of a hierarchy
FirstLevelNodes(h) == h.v["hierarchy_levels"].v[1].v["nodes"].v

\* C18: the fallback builder returns a hierarchy for every input and never
\* raises: when an exception occurs while it builds, it returns the minimal
\* hierarchy of one level holding one node (id main_topic, type concept,
\* importance high) and no relationships.
C18_FallbackAlwaysReturns ==
    /\ fallback.pc = "returned" =>
          /\ IsDict(fallback.result)
          /\ Get(fallback.result, "hierarchy_levels", JNull).t = "list"
          /\ Get(fallback.result, "relationships", JNull).t = "list"
    /\ (fallback.pc = "returned" /\ ~FallbackText(fallback.content).ok) =>
          /\ Len(fallback.result.v["hierarchy_levels"].v) = 1
          /\ Len(FirstLevelNodes(fallback.result)) = 1
          /\ FirstLevelNodes(fallback.result)[1].v["id"] = JLit("main_topic")
          /\ FirstLevelNodes(fallback.result)[1].v["type"] = JLit("concept")
          /\ FirstLevelNodes(fallback.result)[1].v["importance"] = JLit("high")
          /\ fallback.result.v["relationships"] = JList(<<>>)

\* the builder returned after a statement of its try block raised
C18_Witness ==
    /\ fallback.pc = "returned"
    /\ IsDict(fallback.content)
    /\ ~FallbackText(fallback.content).ok
    /\ fallback.result = MinimalHierarchy

NodeFields == {"id", "name", "type", "level", "size", "content", "color"}
LinkFields == {"source", "target", "value", "type"}
\* every node and every link of g has its fields
Fielded(g) ==
    /\ \A i \in DOMAIN g.nodes : NodeFields \subseteq DOMAIN g.nodes[i]
    /\ \A i \in DOMAIN g.links : LinkFields \subseteq DOMAIN g.links[i]

\* C19: every node of every graph returned to the caller, on every tier,
\* carries the fields id, name, type, level, size, content and color, and
\* every link carries the fields source, target, value and type.
C19_EveryNodeAndLinkHasFields == ReturnedGraph => Fielded(graph)

\* the same of the assembler's graphs alone
C19_AssemblerFielded == ByAssembler => Fielded(graph)

\* the owner asks for a quiz of their record with 1 to 50 questions
OwnerQuizRequest ==
    /\ request.route = "quiz"
    /\ request.user_id # "none"
    /\ OwnerRequests
    /\ request.num_questions.t = "num"
    /\ request.num_questions.v \in 1..50

\* C20: a quiz request by the owner of a stored content record, with that
\* record's content_id and a num_questions between 1 and 50, is answered
\* with status 200 and a body that has the field quiz, for every outcome of
\* the AI backend.
C20_OwnerQuizAnswered ==
    (pc = "responded" /\ OwnerQuizRequest) => response = [status |-> 200, body |-> "quiz"]

\* C21: within one assembly run the root gets "0" and the k-th hierarchy
\* node, counted across the levels in order, gets the decimal string of k:
\* ids are pairwise distinct and the node at position i (from 0) has the id
\* ToString(i), also after the two synthetic nodes are appended.
C21_IdsFollowCounter ==
    ByAssembler =>
        /\ \A i \in DOMAIN graph.nodes : graph.nodes[i].id = ToString(i - 1)
        /\ \A i, j \in DOMAIN graph.nodes : (i # j) => graph.nodes[i].id # graph.nodes[j].id
        /\ Len(HierarchyNodes(hierarchy_data)) >= 1 =>
              Len(graph.nodes) = 1 + Len(HierarchyNodes(hierarchy_data))

\* a graph with hierarchy nodes of two levels
C21_Witness ==
    /\ ByAssembler
    /\ Len(graph.nodes) >= 4
    /\ \E i \in DOMAIN graph.nodes : graph.nodes[i].level = JNum(2)

\* a graph that ends in the two synthetic nodes
C21_WitnessSynthetic ==
    /\ ByAssembler
    /\ HierarchyNodes(hierarchy_data) = <<>>
    /\ Len(graph.nodes) = 3

\* the sources (descriptions) of the nodes of the level numbered n in h
LevelSources(h, n) ==
    LET at == SelectSeq(h.v["hierarchy_levels"].v, LAMBDA l : l.v["level"] = JNum(n))
    IN IF at = <<>> THEN <<>>
       ELSE [i \in DOMAIN at[1].v["nodes"].v |-> at[1].v["nodes"].v[i].v["description"].v]
\* the first k items of a sequence, or all of it when shorter
FirstOf(seq, k) == SubSeq(seq, 1, IF Len(seq) < k THEN Len(seq) ELSE k)
\* the builder has returned the hierarchy of its try block
FallbackBuilt == fallback.pc = "returned" /\ FallbackText(fallback.content).ok

\* C22: the fallback builder takes its level-1 source from the first 4
\* sentences (fragments between '.' of trimmed length over 20) when there are
\* at least 4 and otherwise from the first 4 paragraphs; its level-2 source
\* from sentences 5 to 8 when there are at least 8, otherwise from paragraphs
\* 5 to 8 when there are at least 8, and otherwise it builds no level 2.
C22_FallbackSources ==
    FallbackBuilt =>
        LET s == FallbackText(fallback.content).val
            sentences == Sentences(s)
            paragraphs == Paragraphs(s)
        IN /\ \A i \in DOMAIN sentences : StrLen(sentences[i]) > 20
           /\ LevelSources(fallback.result, 1)
                 = IF Len(sentences) >= 4 THEN FirstOf(sentences, 4) ELSE FirstOf(paragraphs, 4)
           /\ LevelSources(fallback.result, 2)
                 = IF Len(sentences) >= 8 THEN SubSeq(sentences, 5, 8)
                   ELSE IF Len(paragraphs) >= 8 THEN SubSeq(paragraphs, 5, 8)
                   ELSE <<>>
           /\ Len(fallback.result.v["hierarchy_levels"].v)
                 = (IF LevelSources(fallback.result, 1) = <<>> THEN 0 ELSE 1)
                   + (IF LevelSources(fallback.result, 2) = <<>> THEN 0 ELSE 1)

\* level 1 came from four sentences and level 2 from paragraphs 5 to 8
C22_Witness ==
    /\ FallbackBuilt
    /\ Len(Sentences(FallbackText(fallback.content).val)) \in 4..7
    /\ Len(Paragraphs(FallbackText(fallback.content).val)) >= 8
    /\ Len(LevelSources(fallback.result, 1)) = 4
    /\ Len(LevelSources(fallback.result, 2)) = 4

\* four fragments of 20 characters are no sentences: level 1 came from the paragraph
C22_WitnessShortFragments ==
    /\ FallbackBuilt
    /\ fallback.content = JStr(Repeat(Cat(X(20), <<Run(".", 1), Run(" ", 1)>>), 4))
    /\ Len(LevelSources(fallback.result, 1)) = 1

\* the ids of the nodes of the level numbered n in h
LevelIds(h, n) ==
    LET at == SelectSeq(h.v["hierarchy_levels"].v, LAMBDA l : l.v["level"] = JNum(n))
    IN IF at = <<>> THEN <<>>
       ELSE [i \in DOMAIN at[1].v["nodes"].v |-> at[1].v["nodes"].v[i].v["id"]]
\* the set of the items of a sequence
Range(seq) == {seq[i] : i \in DOMAIN seq}
\* "main_3" for ("main_", 3)
IdOf(prefix, i) == JLit(prefix \o ToString(i))

\* C23: the fallback hierarchy has exactly one relationship main_i -> sub_i
\* (type related, strength medium) for each i below the smaller of the
\* numbers of level-1 and level-2 nodes, and no other: every relationship it
\* emits names two nodes that exist in its levels.
C23_FallbackRelationships ==
    fallback.pc = "returned" =>
        LET h == fallback.result
            rels == h.v["relationships"].v
            n == IF Len(LevelIds(h, 1)) < Len(LevelIds(h, 2))
                 THEN Len(LevelIds(h, 1)) ELSE Len(LevelIds(h, 2))
        IN /\ Len(rels) = n
           /\ \A i \in DOMAIN rels :
                 /\ DOMAIN rels[i].v = {"source", "target", "relationship_type", "strength"}
                 /\ rels[i].v["source"] = IdOf("main_", i - 1)
                 /\ rels[i].v["target"] = IdOf("sub_", i - 1)
                 /\ rels[i].v["relationship_type"] = JLit("related")
                 /\ rels[i].v["strength"] = JLit("medium")
                 /\ rels[i].v["source"] \in Range(LevelIds(h, 1))
                 /\ rels[i].v["target"] \in Range(LevelIds(h, 2))

\* a fallback hierarchy with two levels and its four relationships
C23_Witness ==
    /\ FallbackBuilt
    /\ Len(LevelIds(fallback.result, 2)) = 4
    /\ Len(fallback.result.v["relationships"].v) = 4

\* the links of g the assembler adds by itself, not from a relationship
AutoLinks(g) == SelectSeq(g.links, LAMBDA l : "description" \notin DOMAIN l)
\* the links of g with the node id at an end
LinksAt(g, id) == SelectSeq(g.links, LAMBDA l : l.source = id \/ l.target = id)

C24_WitnessRelated ==
    /\ ByAssembler
    /\ \E j \in DOMAIN graph.nodes :
          /\ graph.nodes[j].level = JNum(2)
          /\ LinksAt(graph, graph.nodes[j].id) # <<>>

\* the legacy builder's own graph has been returned for a structured document
ByLegacy == ReturnedGraph /\ tier = "legacy"
\* the positions of the nodes of g at a level
AtLevel(g, n) == {i \in DOMAIN g.nodes : g.nodes[i].level = JNum(n)}
\* the positions of the links of g into the node id
LinksInto(g, id) == {k \in DOMAIN g.links : g.links[k].target = id}
\* the positions of the nodes of g that a link joins to the node id
ChildrenOf(g, id) ==
    {i \in DOMAIN g.nodes : \E k \in DOMAIN g.links :
        g.links[k].source = id /\ g.links[k].target = g.nodes[i].id}
\* the items of a field of the document, none when the field is empty or absent
FieldItems(doc, k) == IF Truthy(Get(doc, k, JNull)) THEN Items(doc.v[k]) ELSE <<>>
\* the position in g of the node of the i-th main section
RECURSIVE SectionPosition(_, _)
SectionPosition(sections, i) ==
    IF i = 1 THEN 2
    ELSE SectionPosition(sections, i - 1) + 1 + Len(FieldItems(sections[i - 1], "key_points"))

\* C25: for a structured document the legacy builder emits one level-1 node
\* of size 30 per main section, linked from root "0" with value 3, and one
\* level-2 node of size 20 per key point, linked with value 2 from the node
\* of the section that holds it and from no other node; glossary entries and
\* takeaways are level-2 children of their own single level-1 group node.
C25_LegacyStructure ==
    ByLegacy =>
        LET doc == content.content.doc
            sections == FieldItems(doc, "main_sections")
            glossary == FieldItems(doc, "concepts_glossary")
            takeaways == FieldItems(doc, "key_takeaways")
            groups == {i \in AtLevel(graph, 1) : "children" \notin DOMAIN graph.nodes[i]}
        IN /\ \A i \in AtLevel(graph, 1) :
                 /\ graph.nodes[i].size = 30
                 /\ \A k \in LinksInto(graph, graph.nodes[i].id) :
                       graph.links[k].source = "0" /\ graph.links[k].value = 3
                 /\ Cardinality(LinksInto(graph, graph.nodes[i].id)) = 1
           /\ \A i \in AtLevel(graph, 2) :
                 /\ Cardinality(LinksInto(graph, graph.nodes[i].id)) = 1
                 /\ \A k \in LinksInto(graph, graph.nodes[i].id) : graph.links[k].value = 2
                 /\ graph.nodes[i].type = JLit("key_point") => graph.nodes[i].size = 20
           /\ \A n \in DOMAIN sections :
                 LET at == SectionPosition(sections, n)
                     points == FieldItems(sections[n], "key_points")
                 IN /\ at \in AtLevel(graph, 1)
                    /\ "children" \in DOMAIN graph.nodes[at]
                    /\ ChildrenOf(graph, graph.nodes[at].id) = (at + 1)..(at + Len(points))
                    /\ \A j \in DOMAIN points :
                          /\ graph.nodes[at + j].level = JNum(2)
                          /\ graph.nodes[at + j].size = 20
                          /\ graph.nodes[at + j].content = points[j]
           /\ Cardinality(AtLevel(graph, 1) \ groups) = Len(sections)
           /\ Cardinality(groups) = (IF glossary = <<>> THEN 0 ELSE 1)
                                    + (IF takeaways = <<>> THEN 0 ELSE 1)
           /\ glossary # <<>> =>
                 \E i \in groups :
                    /\ graph.nodes[i].name = JLit("Key Concepts")
                    /\ Cardinality(ChildrenOf(graph, graph.nodes[i].id)) = Len(glossary)
                    /\ \A j \in ChildrenOf(graph, graph.nodes[i].id) :
                          graph.nodes[j].level = JNum(2) /\ graph.nodes[j].type = JLit("concept")
           /\ takeaways # <<>> =>
                 \E i \in groups :
                    /\ graph.nodes[i].name = JLit("Key Takeaways")
                    /\ Cardinality(ChildrenOf(graph, graph.nodes[i].id)) = Len(takeaways)
                    /\ \A j \in ChildrenOf(graph, graph.nodes[i].id) :
                          graph.nodes[j].level = JNum(2) /\ graph.nodes[j].type = JLit("key_point")

\* a legacy graph of two sections, the first with two key points
C25_Witness ==
    /\ ByLegacy
    /\ Len(FieldItems(content.content.doc, "main_sections")) = 2
    /\ Len(graph.nodes) = 6

\* a legacy graph with the group node of the takeaways
C25_WitnessTakeaways ==
    /\ ByLegacy
    /\ \E i \in DOMAIN graph.nodes : graph.nodes[i].name = JLit("Key Takeaways")

\* the derivation has ended after calling the legacy builder
LegacyCalled ==
    /\ pc = "done"
    /\ Has(hierarchy_data, "error") \/ ~Assemble(hierarchy_data, content).ok
\* the legacy builder handed a text to the simple builder: the content is no
\* JSON, or the legacy build raised and the text was extracted
SimpleCalled ==
    /\ LegacyCalled
    /\ \/ content.content.kind = "plain"
       \/ /\ content.content.kind = "json"
          /\ ~LegacyBuild(content.content.doc, content).ok
          /\ extract_text_from_content(content.content).ok
\* the text handed to the simple builder
SimpleText ==
    IF content.content.kind = "plain" THEN JStr(TextOf(content.content))
    ELSE extract_text_from_content(content.content).val
\* the graph the claim describes for the text s: the root, and a node and a
\* link for each of the first 10 non-empty paragraphs
SimpleShape(g, s) ==
    LET paragraphs == Paragraphs(s)
        n == IF Len(paragraphs) > 10 THEN 10 ELSE Len(paragraphs)
    IN /\ Len(g.nodes) = n + 1 /\ Len(g.links) = n
       /\ g.nodes[1].id = "0"
       /\ \A i \in 1..n :
             /\ g.nodes[i + 1].id = ToString(i)
             /\ g.nodes[i + 1].content = JStr(paragraphs[i])
             /\ g.nodes[i + 1].type = JLit(IF i <= 5 THEN "sub_topic" ELSE "key_point")
             /\ g.nodes[i + 1].size = (IF i <= 5 THEN 25 ELSE 20)
             /\ g.links[i] = [source |-> "0", target |-> ToString(i), value |-> 2]

\* C26: the simple text builder returns, for any text, the root "0" plus one
\* node per non-empty paragraph up to 10 nodes, the first 5 of type sub_topic
\* and size 25 and the rest of type key_point and size 20, each linked from
\* the root with value 2; a null text is treated as the empty string and
\* yields the root-only graph rather than a failure.
C26_SimpleBuilderTotal ==
    (SimpleCalled /\ SimpleText.t \in {"str", "null"}) =>
        /\ ~raised
        /\ tier = "simple"
        /\ SimpleShape(graph, IF SimpleText.t = "null" THEN <<>> ELSE SimpleText.v)

\* the same of the texts that are strings: the part of C26 the code keeps
C26_SimpleBuilderOnStrings ==
    (SimpleCalled /\ SimpleText.t = "str") =>
        /\ ~raised
        /\ tier = "simple"
        /\ SimpleShape(graph, SimpleText.v)

\* the simple builder was handed a null text and the derivation raised
C26_NullTextRaises ==
    /\ SimpleCalled
    /\ SimpleText = JNull
    /\ raised

\* the nodes of g that come from no hierarchy node and are not the root
SyntheticNodes(g) == {i \in DOMAIN g.nodes : i >= 2 /\ "importance" \notin DOMAIN g.nodes[i]}

\* C27: the minimum-viable bootstrap fires exactly when the hierarchy levels
\* contribute no node at all; when it fires the graph has exactly the nodes
\* "0", "1", "2" and exactly three links (0->1 and 0->2 of type hierarchy,
\* 1->2 of type related), whatever relationships the hierarchy lists; when
\* the hierarchy contributes one or more nodes no synthetic node is added.
C27_BootstrapOnlyWhenBare ==
    ByAssembler =>
        /\ (SyntheticNodes(graph) # {}) <=> (HierarchyNodes(hierarchy_data) = <<>>)
        /\ HierarchyNodes(hierarchy_data) = <<>> =>
              /\ [i \in DOMAIN graph.nodes |-> graph.nodes[i].id] = <<"0", "1", "2">>
              /\ [i \in DOMAIN graph.links |->
                    <<graph.links[i].source, graph.links[i].target, graph.links[i].type>>]
                 = << <<"0", "1", JLit("hierarchy")>>, <<"0", "2", JLit("hierarchy")>>,
                      <<"1", "2", JLit("related")>> >>
        /\ HierarchyNodes(hierarchy_data) # <<>> =>
              Len(graph.nodes) = 1 + Len(HierarchyNodes(hierarchy_data))

\* the bootstrap fired for a hierarchy that lists relationships
C27_Witness ==
    /\ ByAssembler
    /\ HierarchyNodes(hierarchy_data) = <<>>
    /\ Truthy(Get(hierarchy_data, "relationships", JNull))
    /\ Len(graph.nodes) = 3

\* one hierarchy node: two nodes and no synthetic one
C27_WitnessOneNode ==
    /\ ByAssembler
    /\ Len(HierarchyNodes(hierarchy_data)) = 1
    /\ Len(graph.nodes) = 2

\* the relationships of h with the given end 'main' and the other end a
\* hierarchy node's name
FromMain(h) ==
    SelectSeq(Items(Get(h, "relationships", JList(<<>>))),
              LAMBDA r : /\ Get(r, "source", JLit("")) = JLit("main")
                         /\ Get(r, "target", JLit("")) \in ResolvableEnds(h) \ {JLit("main")})
IntoMain(h) ==
    SelectSeq(Items(Get(h, "relationships", JList(<<>>))),
              LAMBDA r : /\ Get(r, "target", JLit("")) = JLit("main")
                         /\ Get(r, "source", JLit("")) \in ResolvableEnds(h) \ {JLit("main")})

\* C28: the id map starts with 'main' bound to the root "0": a relationship
\* whose source or target is the literal 'main' and whose other end names a
\* hierarchy node gives a link that touches the root, although no hierarchy
\* node has the id 'main'.
C28_MainResolvesToRoot ==
    (ByAssembler /\ JLit("main") \notin HierarchyNodeIds(hierarchy_data)
                                       \cup HierarchyNodeTitles(hierarchy_data)) =>
        /\ FromMain(hierarchy_data) # <<>> =>
              \E i \in DOMAIN RelationshipLinks(graph) :
                  /\ RelationshipLinks(graph)[i].source = "0"
                  /\ RelationshipLinks(graph)[i].target # "0"
        /\ IntoMain(hierarchy_data) # <<>> =>
              \E i \in DOMAIN RelationshipLinks(graph) :
                  /\ RelationshipLinks(graph)[i].target = "0"
                  /\ RelationshipLinks(graph)[i].source # "0"

\* a relationship main -> a gave a relationship link from the root
C28_Witness ==
    /\ ByAssembler
    /\ JLit("main") \notin HierarchyNodeIds(hierarchy_data)
    /\ FromMain(hierarchy_data) # <<>>
    /\ \E i \in DOMAIN RelationshipLinks(graph) : RelationshipLinks(graph)[i].source = "0"

\* the ids reached from the set "seen" in at most k steps along the links of g
RECURSIVE ReachedIn(_, _, _)
ReachedIn(g, seen, k) ==
    IF k = 0 THEN seen
    ELSE ReachedIn(g,
                   seen \cup {g.links[i].target :
                                 i \in {j \in DOMAIN g.links : g.links[j].source \in seen}},
                   k - 1)
ReachableFromRoot(g) == ReachedIn(g, {"0"}, Len(g.nodes))
NotConfiguredGraph == ReturnedGraph /\ outcome = "not_configured"
HasLevel2(h) == LevelIds(h, 2) # <<>>

\* C29: when the backend is not configured every node of the returned graph
\* is reachable from the root "0" along links; whenever the fallback
\* hierarchy has a level 2 it has exactly 4 level-1 nodes and 4 level-2
\* nodes, each level-2 node sub_i being the target of the link from main_i;
\* and the graph has at most 9 nodes.
C29_FallbackGraphConnected ==
    NotConfiguredGraph =>
        /\ tier = "assembler"
        /\ NodeIds(graph) \subseteq ReachableFromRoot(graph)
        /\ Len(graph.nodes) <= 9
        /\ HasLevel2(hierarchy_data) =>
              /\ LevelIds(hierarchy_data, 1) = [i \in 1..4 |-> IdOf("main_", i - 1)]
              /\ LevelIds(hierarchy_data, 2) = [i \in 1..4 |-> IdOf("sub_", i - 1)]
              /\ Len(graph.nodes) = 9
              /\ \A i \in 1..4 :
                    /\ graph.nodes[1 + i].level = JNum(1)
                    /\ graph.nodes[5 + i].level = JNum(2)
                    /\ \E j \in DOMAIN RelationshipLinks(graph) :
                          /\ RelationshipLinks(graph)[j].source = graph.nodes[1 + i].id
                          /\ RelationshipLinks(graph)[j].target = graph.nodes[5 + i].id

\* a graph of nine nodes from a fallback hierarchy of two levels
C29_Witness ==
    /\ NotConfiguredGraph
    /\ HasLevel2(hierarchy_data)
    /\ Len(graph.nodes) = 9
    /\ "5" \in ReachableFromRoot(graph)

\* the derivation has ended for a hierarchy with the key 'error'
EndedOnErrorKey == pc = "done" /\ Has(hierarchy_data, "error")

====
